---- MODULE Spec2Model ----
(***************************************************************************)
(* The MCP test harness (src/mcp_test_harness): the tool-invocation bridge *)
(* (mcp_client.py), the request logger (logger.py) and the resource-       *)
(* bounded invoker of app.py (semaphore admission, retry with backoff,     *)
(* timeout and cancellation).                                              *)
(*                                                                         *)
(* Fifteen specifications share the module:                                *)
(*   Spec          concurrent invocations through                          *)
(*                 call_tool_with_timeout_async on one event loop          *)
(*   SpecRetry     call_with_retry_async alone, on any awaitable           *)
(*   SpecBridge    call_server_tool alone, with the request logger         *)
(*   SpecDiscover  list_server_tools alone                                 *)
(*   SpecStore     ThreadSafeToolStore and the lists its callers hold      *)
(*   SpecCache     ThreadSafeToolStore's three methods alone               *)
(*   SpecLookup    get_tool_schema_async over the tool store               *)
(*   SpecConfig    create_app loading one configuration after another      *)
(*   SpecParams    create_server_parameters on one configuration           *)
(*   SpecSurface   invocations through either UI binding of call_tool      *)
(*   SpecDebugger  AgnoMCPDebugger's in-memory lists                       *)
(*   SpecClient    OllamaMCPClient's connection state                      *)
(*   SpecLock      ThreadSafeToolStore called from several threads         *)
(*   SpecArgs      the argument rewriting of create_server_parameters      *)
(*   SpecLabel     the label of a cached tool and the name taken from it   *)
(***************************************************************************)
EXTENDS Integers, Sequences, FiniteSets, TLC

VARIABLES
    http_semaphore,  \* app.py:24   None, or the asyncio.Semaphore's counter
    waiters,         \* the semaphore's deque of waiting acquirers (task ids)
    inv,             \* one record per invocation task: position and locals
    rt,              \* SpecRetry: one run of call_with_retry_async
    br,              \* SpecBridge: one run of call_server_tool
    textSink,        \* logger.py: the human-readable lines written so far
    jsonSink,        \* logger.py: the structured (JSON) entries written so far
    ds,              \* SpecDiscover: one run of list_server_tools
    ts               \* SpecStore, SpecConfig: tools_store (app.py:50), the
                     \* values its callers hold, server_parameters (app.py:21)

vars == <<http_semaphore, waiters, inv, rt, br, textSink, jsonSink, ds, ts>>

(***************************************************************************)
(* Bounds of the model.                                                    *)
(***************************************************************************)
\* Capacity N of the invocation semaphore.  The code writes 20
\* (app.py:77 and app.py:197); the admission logic does not depend on the
\* number, so the model runs it with a small N.
Capacity == 1
\* Number of concurrent invocations issued (tasks on the event loop): one
\* more than the semaphore admits.
NumInv == Capacity + 1

Invocations == 1..NumInv

(***************************************************************************)
(* Exceptions, by class name.  aiohttp.ClientError and asyncio.TimeoutError*)
(* are the transient classes of app.py:110.                                *)
(***************************************************************************)
TransientErrors == {"ClientError", "TimeoutError"}
OtherErrors == {"ValueError", "OSError"}
\* Raised by Python when a coroutine object is awaited a second time.
ReuseError == "RuntimeError"
\* Raised by json.dumps on a value that is not JSON-serialisable.
DumpsError == "TypeError"

(***************************************************************************)
(* call_with_retry_async (app.py:102-127).                                 *)
(*                                                                         *)
(* The function receives an awaitable, not a factory.  Its only caller     *)
(* (app.py:201-203) passes the coroutine object call_server_tool(...).     *)
(* A coroutine object runs once: awaiting it again raises RuntimeError     *)
(* ("cannot reuse already awaited coroutine").  An object with its own     *)
(* __await__ may run the underlying call anew on every await; the model    *)
(* covers both kinds.                                                      *)
(***************************************************************************)
\* Largest max_retries argument the model tries.
MaxRetriesBound == 4
\* Largest retry_delay argument (in whole time units) the model tries.
MaxDelayBound == 2
\* Defaults of the signature, app.py:102 (retry_delay=1.0 is one unit).
DefaultMaxRetries == 3
DefaultRetryDelay == 1

AwaitableKinds == {"coroutine", "reawaitable"}
\* What one run of the underlying call does: return a value or raise.
CallOutcomes == {"ok"} \cup TransientErrors \cup OtherErrors

RECURSIVE Pow2(_)
Pow2(n) == IF n <= 0 THEN 1 ELSE 2 * Pow2(n - 1)

\* app.py:110  except (aiohttp.ClientError, asyncio.TimeoutError)
IsTransient(e) == e \in TransientErrors

\* app.py:109  `await coro`, the k-th time it is evaluated (k >= 1), on an
\* awaitable of the given kind whose underlying call, if run now, does o.
\* run = TRUE when the underlying call actually ran.
AwaitCoro(kind, o, k) ==
    IF kind = "coroutine" /\ k > 1
    THEN [run |-> FALSE, out |-> ReuseError]
    ELSE [run |-> TRUE, out |-> o]

\* app.py:116  asyncio.sleep(retry_delay * (2 ** (retries - 1)))
BackoffDelayOffByOne(retry_delay, retries) == retry_delay * Pow2(retries)
BackoffDelay(retry_delay, retries) == retry_delay * Pow2(retries - 1)

\* app.py:114  if retries < max_retries (sleep and go round again)
RetryAgain(retries, max_retries) == retries < max_retries

\* app.py:104-105  the locals on entry.  outs records what each run of the
\* underlying call did; awaits counts the evaluations of `await coro`.
RetryEntry(kind, max_retries, retry_delay) ==
    [pc |-> "loop", kind |-> kind,
     max_retries |-> max_retries, retry_delay |-> retry_delay,
     retries |-> 0, last_exception |-> "None",
     awaits |-> 0, outs |-> << >>, sleeps |-> << >>,
     result |-> "none", raised |-> "none"]

\* app.py:110-120  except (ClientError, TimeoutError): count, then back off
\* and go round again, or re-raise when the cap is reached
Transient(r, e) ==
    LET n == r.retries + 1 IN
    IF RetryAgain(n, r.max_retries)
    THEN [r EXCEPT !.retries = n, !.last_exception = e, !.pc = "sleeping",
                   !.sleeps = Append(@, BackoffDelay(r.retry_delay, n))]
    ELSE [r EXCEPT !.retries = n, !.last_exception = e,
                   !.pc = "done", !.raised = e]

\* app.py:121-124  except Exception: not retried, re-raised as it is
NonRetriableRetried(r, e) == Transient(r, e)
NonRetriable(r, e) == [r EXCEPT !.pc = "done", !.raised = e]

\* app.py:107-127  one evaluation of the while test and, when it holds, of
\* the loop body up to its next suspension (the sleep) or exit; o is what
\* the underlying call does if this await runs it.
RetryIterate(r, o) ==
    IF ~(r.retries < r.max_retries)
    THEN \* app.py:127  raise last_exception; raising None is a TypeError
         [r EXCEPT !.pc = "done",
                   !.raised = IF r.last_exception = "None" THEN "TypeError"
                              ELSE r.last_exception]
    ELSE LET a == AwaitCoro(r.kind, o, r.awaits + 1)
             r1 == [r EXCEPT !.awaits = @ + 1,
                             !.outs = IF a.run THEN Append(@, o) ELSE @]
         IN  IF a.out = "ok"
             THEN [r1 EXCEPT !.pc = "done", !.result = "ok"]
             ELSE IF IsTransient(a.out) THEN Transient(r1, a.out)
             ELSE NonRetriable(r1, a.out)

\* app.py:116  the backoff sleep ends; control returns to the while test
RetryWake(r) == [r EXCEPT !.pc = "loop"]

(***************************************************************************)
(* The request logger, log_request_response (logger.py:17-44), and the     *)
(* session bridge, call_server_tool (mcp_client.py:87-165).                *)
(*                                                                         *)
(* Optional values: None is the empty tuple, a present value x is <<x>>.   *)
(* A payload is described by its shape and by whether json.dumps accepts   *)
(* it; json.dumps raises TypeError on anything else (the SDK's content     *)
(* objects, a mock, a set, bytes, a datetime).                             *)
(***************************************************************************)
None == << >>
Some(x) == <<x>>

\* What the `async with` block of mcp_client.py:105-111 can end with: an
\* exception raised while spawning, during the handshake or during the
\* call, or a raw result.
Phases == {"spawn", "handshake", "call"}
Messages == {"", "failed"}
RawExceptions ==
    [kind : {"exc"}, phase : Phases,
     cls : TransientErrors \cup OtherErrors, msg : Messages]
\* A raw result object: its content attribute is absent (None), a JSON
\* mapping, another JSON value, or a list of SDK content objects; its
\* isError attribute is absent, False or True.
ContentShapes == {"absent", "dict", "value", "objects"}
ErrorFlags == {"absent", "false", "true"}
RawObjects == [kind : {"object"}, content : ContentShapes, isError : ErrorFlags]
\* A bare JSON value returned in place of a result object: no attributes.
RawBare == [kind : {"bare"}, content : {"absent"}, isError : {"absent"}]
RawResults == RawObjects \cup RawBare
RawOutcomes == RawExceptions \cup RawResults

\* mcp_client.py:118-124  response_data
ResponseData(raw) ==
    IF raw.content = "absent"
    THEN [wrapped |-> TRUE, payload |-> raw.kind, serial |-> raw.kind = "bare"]
    ELSE IF raw.content = "dict"
    THEN [wrapped |-> FALSE, payload |-> "dict", serial |-> TRUE]
    ELSE [wrapped |-> TRUE, payload |-> raw.content, serial |-> raw.content = "value"]

\* mcp_client.py:129  is_error = getattr(result, 'isError', False)
IsErrorFlag(raw) == raw.isError = "true"

\* str(e) of a caught exception
StrOf(e) == e.msg

\* mcp_client.py:158  {"error": str(e)}
ErrorPayload(e) == [wrapped |-> FALSE, payload |-> "error", serial |-> TRUE]

\* logger.py:25-32  log_entry (timestamp, server, tool and arguments are
\* the call's own and are left out)
LogEntry(response, is_error) == [response |-> response, is_error |-> is_error]

\* a logger that hands back its entry without writing anything
LogRequestResponseUnwritten(args_ok, response, is_error) ==
    [raised |-> FALSE, lines |-> << >>, entries |-> << >>,
     entry |-> LogEntry(response, is_error)]

\* logger.py:17-44  log_request_response.  args_ok: json.dumps accepts the
\* arguments.  Returns the lines and entries written before it returned or
\* raised.
LogRequestResponse(args_ok, response, is_error) ==
    LET entry == LogEntry(response, is_error)
        request == [line |-> "REQUEST"]
        reply == [line |-> IF is_error THEN "ERROR RESPONSE" ELSE "RESPONSE"]
    IN  IF ~args_ok                              \* :35 json.dumps(arguments)
        THEN [raised |-> TRUE, lines |-> << >>, entries |-> << >>, entry |-> entry]
        ELSE IF ~is_error /\ ~response.serial    \* :39 json.dumps(response)
        THEN [raised |-> TRUE, lines |-> <<request>>, entries |-> << >>,
              entry |-> entry]
        ELSE IF ~response.serial                 \* :42 json.dumps(log_entry)
        THEN [raised |-> TRUE, lines |-> <<request, reply>>, entries |-> << >>,
              entry |-> entry]
        ELSE [raised |-> FALSE, lines |-> <<request, reply>>,
              entries |-> <<entry>>, entry |-> entry]

\* mcp_client.py:145-149  the ToolResponse of the normal path
NormalResponse(response_data, is_error, log_entry) ==
    [success |-> ~is_error, result |-> Some(response_data), error |-> None,
     log_entry |-> Some(log_entry)]

\* mcp_client.py:150-165  except Exception as e: log, then return a failure.
\* lines and entries are what the try block had already written.
Boundary(args_ok, e, lines, entries) ==
    LET log == LogRequestResponse(args_ok, ErrorPayload(e), TRUE) IN
    IF log.raised
    THEN [outcome |-> "raise", exc |-> [cls |-> DumpsError, msg |-> "failed"],
          response |-> None,
          lines |-> lines \o log.lines, entries |-> entries \o log.entries]
    ELSE [outcome |-> "return", exc |-> e,
          response |-> Some([success |-> FALSE, result |-> None,
                             error |-> Some(StrOf(e)),
                             log_entry |-> Some(log.entry)]),
          lines |-> lines \o log.lines, entries |-> entries \o log.entries]

\* mcp_client.py:87-165  call_server_tool, given what its session block ends
\* with and whether the arguments are JSON-serialisable.
CallServerTool(raw, args_ok) ==
    IF raw.kind = "exc"
    THEN Boundary(args_ok, [cls |-> raw.cls, msg |-> raw.msg], << >>, << >>)
    ELSE LET response_data == ResponseData(raw)
             is_error == IsErrorFlag(raw)
             log == LogRequestResponse(args_ok, response_data, is_error)
         IN  IF log.raised
             THEN Boundary(args_ok, [cls |-> DumpsError, msg |-> "failed"],
                           log.lines, log.entries)
             ELSE [outcome |-> "return", exc |-> [cls |-> "None", msg |-> ""],
                   response |-> Some(NormalResponse(response_data, is_error, log.entry)),
                   lines |-> log.lines, entries |-> log.entries]

(***************************************************************************)
(* Tool discovery, list_server_tools (mcp_client.py:9-85).                 *)
(*                                                                         *)
(* A raw entry's attribute is "missing" (absent or None), "empty" (the     *)
(* empty string, the empty mapping) or "present"; an input schema may also *)
(* be present but not JSON-serialisable ("opaque").  id tells the entries  *)
(* of one list apart.                                                      *)
(***************************************************************************)
\* Longest raw tool list the model tries.
MaxTools == 2

AttrShapes == {"missing", "empty", "present"}
SchemaShapes == AttrShapes \cup {"opaque"}
RawEntries(n) ==
    [1..n -> [name : AttrShapes, description : AttrShapes,
              inputSchema : SchemaShapes]]
\* The session block raised: while spawning, during the handshake or
\* during the list request.
RawFailures ==
    [kind : {"exc"}, phase : {"spawn", "handshake", "list"},
     tools : {"absent"}, entries : {<< >>}]
\* tools_response.tools is absent, or a truthy value that cannot be iterated;
\* otherwise it is a list of entries (possibly empty), tools = "list".
RawMalformed ==
    [kind : {"response"}, tools : {"absent", "not_iterable"}, entries : {<< >>}]

\* Python truthiness of an attribute value
Truthy(shape) == shape \in {"present", "opaque"}

\* mcp_client.py:54  if not all([name, description, input_schema]): skip
HasAll(e) == Truthy(e.name) /\ Truthy(e.description) /\ Truthy(e.inputSchema)

\* mcp_client.py:48-71  one entry: skipped with a logged error when an
\* attribute is falsy (:54-58) or when building the Tool raises (json.dumps
\* of the schema, :64, caught at :67-71); converted otherwise.
ConvertEntry(e) ==
    IF ~HasAll(e) THEN [kept |-> FALSE, error |-> "missing"]
    ELSE IF e.inputSchema = "opaque" THEN [kept |-> FALSE, error |-> "convert"]
    ELSE [kept |-> TRUE, error |-> "none"]

\* mcp_client.py:46-74  the loop over the entries: the converted tools, in
\* the order met, and the number of errors logged
RECURSIVE ConvertFrom(_, _)
ConvertFrom(entries, k) ==
    IF k > Len(entries) THEN [tools |-> << >>, errors |-> 0]
    ELSE LET c == ConvertEntry(entries[k])
             rest == ConvertFrom(entries, k + 1)
         IN  IF c.kept
             THEN [tools |-> <<[id |-> k, name |-> entries[k].name,
                               description |-> entries[k].description]>>
                             \o rest.tools,
                   errors |-> rest.errors]
             ELSE [tools |-> rest.tools, errors |-> rest.errors + 1]

\* mcp_client.py:75-85  except Exception: log the error, return []
DiscoveryFailureRaises(e) == [raised |-> TRUE, tools |-> << >>, errors |-> 0]
DiscoveryFailure(e) == [raised |-> FALSE, tools |-> << >>, errors |-> 1]

\* mcp_client.py:9-85  list_server_tools, given what its session block ends
\* with
ListServerTools(raw) ==
    IF raw.kind = "exc" THEN DiscoveryFailure(raw.phase)           \* :81-85
    ELSE IF raw.tools = "absent" \/ (raw.tools = "list" /\ raw.entries = << >>)
    THEN [raised |-> FALSE, tools |-> << >>, errors |-> 1]         \* :38-42
    ELSE IF raw.tools = "not_iterable" THEN DiscoveryFailure("convert") \* :75-79
    ELSE LET c == ConvertFrom(raw.entries, 1) IN
         [raised |-> FALSE, tools |-> c.tools, errors |-> c.errors]

(***************************************************************************)
(* The invocation semaphore (app.py:24, :77, :195-199), an                 *)
(* asyncio.Semaphore: a counter and a FIFO deque of waiting acquirers.     *)
(* release() hands the slot to the first waiter whose future is still      *)
(* pending (the counter is decremented on its behalf at once); a waiter    *)
(* cancelled while pending stays in the deque, inert, until its task runs. *)
(* The operators work on S = [sem, ws, I]: the semaphore, its deque and    *)
(* the invocation records.                                                 *)
(***************************************************************************)
\* app.py:77, :197  asyncio.Semaphore(20)
NewSemaphore == [created |-> TRUE, value |-> Capacity]
NoSemaphore == [created |-> FALSE, value |-> 0]

\* the waiter's future was cancelled before it was granted a slot
WaiterCancelled(p) == p.pc = "waiting" /\ p.cancel
\* the waiter's future is still pending
WaiterPending(p) == p.pc = "waiting" /\ ~p.cancel

\* Semaphore.locked(): no slot can be taken right now
LockedOffByOne(S) ==
    \/ S.sem.value < 0
    \/ \E k \in 1..Len(S.ws) : ~WaiterCancelled(S.I[S.ws[k]])
Locked(S) ==
    \/ S.sem.value = 0
    \/ \E k \in 1..Len(S.ws) : ~WaiterCancelled(S.I[S.ws[k]])

\* Semaphore._wake_up_next(): grant the slot to the first pending waiter
WakeUpNext(S) ==
    LET pend == {k \in 1..Len(S.ws) : WaiterPending(S.I[S.ws[k]])} IN
    IF pend = {} THEN S
    ELSE LET k == CHOOSE x \in pend : \A y \in pend : x <= y
             w == S.ws[k]
         IN  [S EXCEPT !.sem.value = @ - 1, !.I[w].pc = "granted"]

\* Semaphore.release()
ReleaseTwice(S) == WakeUpNext([S EXCEPT !.sem.value = @ + 2])
Release(S) == WakeUpNext([S EXCEPT !.sem.value = @ + 1])

\* app.py:199  `async with http_semaphore`: __aexit__ releases the slot
\* however the block is left: by return, by an exception, by cancellation
ReleasesOnReturnOnly(how) == how = "return"
ReleasesOn(how) == how \in {"return", "raise", "cancel"}

ExitSemaphore(S, how) == IF ReleasesOn(how) THEN Release(S) ELSE S

\* the deque without task i (Semaphore.acquire's finally: waiters.remove)
RECURSIVE Without(_, _)
Without(ws, i) ==
    IF ws = << >> THEN << >>
    ELSE IF Head(ws) = i THEN Without(Tail(ws), i)
    ELSE <<Head(ws)>> \o Without(Tail(ws), i)

(***************************************************************************)
(* One invocation: call_tool_with_timeout_async (app.py:205-222) creates a *)
(* task running call_tool_async (app.py:224-277), which goes through       *)
(* call_server_tool_with_resource_limit (app.py:191-203) and               *)
(* call_with_retry_async to the underlying call.  pc is the task's         *)
(* position (its current suspension point); result is what                 *)
(* call_tool_with_timeout_async returns: the                               *)
(* task's text as soon as the task ends (wait_for hands it over, nothing   *)
(* can change it in between), or the timeout text once the handler has     *)
(* awaited the cancelled task ("none" until then).                         *)
(***************************************************************************)
\* The requests rejected by one of the checks of app.py:226-247 before any
\* invocation; every other request ("ok") goes on to the semaphore.
\* label_string: the selection is the label itself, a string (neither a
\* tuple nor a list, app.py:230-235); invalid_tool: any other such value.
Rejected == {"no_selection", "invalid_tool", "label_string", "bad_json",
             "unknown_server"}
\* A selection that makes call_tool_async raise before its try block: a
\* tuple whose first element is not a string (app.py:231, AttributeError).
OddSelection == "odd_selection"
\* What call_server_tool is bound to: the bridge of mcp_client.py, or a
\* test double (tests patch mcp_test_harness.app.call_server_tool).
Callees == {"bridge", "stub"}
\* What a test double does when run inside an invocation: return a
\* ToolResponse, raise a transient error, raise another error.
StubOutcomes == {"ok", "ClientError", "TimeoutError", "ValueError"}
\* Where a task stands for the timeout that strikes it
Phase(pc) ==
    CASE pc = "created" -> "pending"
      [] pc \in {"waiting", "granted"} -> "waiting"
      [] pc \in {"attempting", "closing"} -> "attempting"
      [] pc = "backoff" -> "backoff"
      [] OTHER -> "unwinding"
\* met (a field of the invocation record) is the class of the exception the
\* underlying call met on its latest run: raised in the bridge's session
\* block or while logging (caught at mcp_client.py:150), or raised by a test
\* double; "None" when it met none.
\* What a finished bridge call leaves for the rest of the task: whether
\* call_server_tool returned or raised, the success flag of its ToolResponse
\* and the number of structured log entries it wrote.
Summary(out) ==
    [outcome |-> out.outcome, cls |-> out.exc.cls,
     success |-> IF out.outcome = "return" THEN out.response[1].success ELSE FALSE,
     records |-> Len(out.entries)]

Fresh == [pc |-> "idle", req |-> "ok", callee |-> "none", cancel |-> FALSE,
          struck |-> "none", session |-> "none",
          retry |-> RetryEntry("coroutine", DefaultMaxRetries, DefaultRetryDelay),
          raw |-> None, met |-> "None", records |-> 0, response |-> "none",
          result |-> "none", timed |-> TRUE, late |-> FALSE, started |-> 0]

\* the task has not finished: the timeout can still strike it
Running == {"created", "waiting", "granted", "attempting", "closing",
            "backoff", "teardown"}
\* the task is inside the semaphore-guarded block or has been handed a slot
Admitted == {"granted", "attempting", "closing", "backoff", "teardown"}
Holders == {i \in Invocations : inv[i].pc \in Admitted}

\* app.py:226-247  the text returned by a rejected request
RejectText(req) ==
    CASE req = "no_selection" -> "select"
      [] req \in {"invalid_tool", "label_string"} -> "invalid"
      [] req = "bad_json" -> "error_json"
      [] req = "unknown_server" -> "error_server"

\* app.py:263-277  the text call_tool_async makes of how the guarded call
\* ended: a ToolResponse (success or not) or an exception
FormatTextConflated(r, success) ==
    IF r.raised = "none" /\ success THEN "success" ELSE "timeout"
FormatText(r, success) ==
    IF r.raised # "none" THEN "error_exception"
    ELSE IF success THEN "success" ELSE "error_tool"

\* app.py:221-222  except Exception as e: an exception that escaped the
\* task is turned into a failure text
OuterBoundaryReraises(e) == "raised"
OuterBoundary(e) == "error_outer"

\* app.py:220-277  whether a returned text starts with the failure marker
\* (the cross mark): the texts of :227 and :235 do not
HasFailureMarker(text) ==
    text \in {"error_json", "error_server", "error_tool", "error_exception",
              "error_outer", "timeout"}

\* app.py:250-255  the ToolResponse call_tool_async received: "none" when
\* the guarded call raised instead
Received(r, success) ==
    IF r.raised # "none" THEN "none"
    ELSE IF success THEN "success" ELSE "failure"

\* mcp_client.py:105-111  leaving `async with ClientSession(...)` and then
\* `async with stdio_client(...)`: the session scope and then the channel
\* scope of the subprocess are torn down, however the block is left
CloseSessionLeaks(p) == p
CloseSession(p) == [p EXCEPT !.session = "closed"]

\* app.py:199-203  the attempt begins: `await coro` runs the underlying
\* call, which suspends on its I/O (the bridge opens its session)
BeginAttempt(p, callee) ==
    [p EXCEPT !.pc = "attempting", !.callee = callee, !.started = @ + 1,
              !.session = IF callee = "bridge" THEN "open" ELSE @]

\* app.py:201-203, :263-277  the retry wrapper has taken a step r with the
\* slot held by task i: it sleeps (backoff), or it has ended, the guarded
\* block is left and the task finishes with its text
AfterRetryStep(S, i, r, success) ==
    IF r.pc = "sleeping"
    THEN [S EXCEPT !.I[i].retry = r, !.I[i].pc = "backoff"]
    ELSE ExitSemaphore(
             [S EXCEPT !.I[i].retry = r, !.I[i].pc = "done",
                       !.I[i].response = Received(r, success),
                       !.I[i].result = FormatText(r, success)],
             IF r.raised = "none" THEN "return" ELSE "raise")

(***************************************************************************)
(* SpecRetry: call_with_retry_async on its own.  Init draws the awaitable  *)
(* and the arguments; what each run of the underlying call does is chosen  *)
(* when it runs.                                                           *)
(***************************************************************************)
Idle == [pc |-> "unused"]

InitRetry ==
    /\ \E kind \in AwaitableKinds, m \in 0..MaxRetriesBound, d \in 1..MaxDelayBound :
           rt = RetryEntry(kind, m, d)
    /\ http_semaphore = [created |-> FALSE, value |-> 0]
    /\ waiters = << >>
    /\ inv = [i \in Invocations |-> Idle]
    /\ br = Idle
    /\ textSink = << >>
    /\ jsonSink = << >>
    /\ ds = Idle
    /\ ts = Idle

RetryStep ==
    /\ rt.pc = "loop"
    /\ \E o \in CallOutcomes : rt' = RetryIterate(rt, o)
    /\ UNCHANGED <<http_semaphore, waiters, inv, br, textSink, jsonSink, ds, ts>>

RetrySleepEnds ==
    /\ rt.pc = "sleeping"
    /\ rt' = RetryWake(rt)
    /\ UNCHANGED <<http_semaphore, waiters, inv, br, textSink, jsonSink, ds, ts>>

NextRetry == RetryStep \/ RetrySleepEnds

SpecRetry == InitRetry /\ [][NextRetry]_vars

(***************************************************************************)
(* SpecBridge: call_server_tool called MaxCalls times in a row, each time  *)
(* with a session outcome and arguments drawn at the call.  The sinks      *)
(* accumulate across the calls; br remembers their lengths before the      *)
(* latest call.                                                            *)
(***************************************************************************)
\* Number of successive calls of call_server_tool the model makes.
MaxCalls == 2

InitBridge ==
    /\ br = [pc |-> "ready", calls |-> 0]
    /\ textSink = << >>
    /\ jsonSink = << >>
    /\ http_semaphore = [created |-> FALSE, value |-> 0]
    /\ waiters = << >>
    /\ inv = [i \in Invocations |-> Idle]
    /\ rt = Idle
    /\ ds = Idle
    /\ ts = Idle

BridgeCall ==
    /\ br.pc \in {"ready", "returned", "raised"}
    /\ br.calls < MaxCalls
    /\ \E raw \in RawOutcomes, args_ok \in BOOLEAN :
         LET out == CallServerTool(raw, args_ok) IN
         /\ br' = [pc |-> IF out.outcome = "return" THEN "returned" ELSE "raised",
                   calls |-> br.calls + 1,
                   raw |-> raw, args_ok |-> args_ok,
                   response |-> out.response, exc |-> out.exc,
                   textBefore |-> Len(textSink), jsonBefore |-> Len(jsonSink)]
         /\ textSink' = textSink \o out.lines
         /\ jsonSink' = jsonSink \o out.entries
    /\ UNCHANGED <<http_semaphore, waiters, inv, rt, ds, ts>>

NextBridge == BridgeCall

SpecBridge == InitBridge /\ [][NextBridge]_vars

(***************************************************************************)
(* SpecDiscover: list_server_tools on its own.  Init draws what the        *)
(* session block ends with.                                                *)
(***************************************************************************)
InitDiscover ==
    /\ \/ \E raw \in RawFailures \cup RawMalformed : ds = [pc |-> "called", raw |-> raw]
       \/ \E n \in 0..MaxTools : \E es \in RawEntries(n) :
              ds = [pc |-> "called",
                    raw |-> [kind |-> "response", tools |-> "list", entries |-> es]]
    /\ http_semaphore = [created |-> FALSE, value |-> 0]
    /\ waiters = << >>
    /\ inv = [i \in Invocations |-> Idle]
    /\ rt = Idle
    /\ br = Idle
    /\ textSink = << >>
    /\ jsonSink = << >>
    /\ ts = Idle

Discover ==
    /\ ds.pc = "called"
    /\ LET out == ListServerTools(ds.raw) IN
       ds' = [pc |-> IF out.raised THEN "raised" ELSE "returned",
              raw |-> ds.raw, tools |-> out.tools, errors |-> out.errors]
    /\ UNCHANGED <<http_semaphore, waiters, inv, rt, br, textSink, jsonSink, ts>>

NextDiscover == Discover

SpecDiscover == InitDiscover /\ [][NextDiscover]_vars

(***************************************************************************)
(* Spec: NumInv invocations on one event loop.  A task runs from one       *)
(* suspension point to the next without interleaving (cooperative          *)
(* scheduling); each action is one such run.  Time is not measured: the    *)
(* timeout of an invocation may fire at any moment while its task is       *)
(* unfinished.                                                             *)
(***************************************************************************)
S0 == [sem |-> http_semaphore, ws |-> waiters, I |-> inv]

Install(S) ==
    /\ http_semaphore' = S.sem
    /\ waiters' = S.ws
    /\ inv' = S.I

Frame == UNCHANGED <<rt, br, textSink, jsonSink, ds, ts>>

\* launch_app (app.py:475) runs create_shared_session, which creates the
\* semaphore, before the UI serves; without launch_app (create_app alone,
\* the tests) the semaphore is still None at the first invocation.
Init ==
    /\ http_semaphore \in {NoSemaphore, NewSemaphore}
    /\ waiters = << >>
    /\ inv = [i \in Invocations |-> Fresh]
    /\ rt = Idle
    /\ br = Idle
    /\ textSink = << >>
    /\ jsonSink = << >>
    /\ ds = Idle
    /\ ts = Idle

\* app.py:209  asyncio.create_task(call_tool_async(...)); wait_for arms the
\* timeout
Submit(i) ==
    /\ inv[i].pc = "idle"
    /\ inv' = [inv EXCEPT ![i].pc = "created"]
    /\ UNCHANGED <<http_semaphore, waiters>>
    /\ Frame

\* a rejection that passes through the semaphore on its way out
RejectThroughSemaphore(i) ==
    /\ inv[i].pc = "created" /\ ~inv[i].cancel
    /\ \E req \in Rejected :
         Install([S0 EXCEPT !.sem = IF @.created THEN @ ELSE NewSemaphore,
                            !.I[i].pc = "done", !.I[i].req = req,
                            !.I[i].result = RejectText(req)])
    /\ Frame

\* app.py:226-247  the task starts and the request is rejected: the task
\* ends with the failure text, the semaphore untouched
Reject(i) ==
    /\ inv[i].pc = "created" /\ ~inv[i].cancel
    /\ \E req \in Rejected :
         inv' = [inv EXCEPT ![i].pc = "done", ![i].req = req,
                            ![i].result = RejectText(req)]
    /\ UNCHANGED <<http_semaphore, waiters>>
    /\ Frame

\* app.py:231, :212, :221-222  the task starts and raises on the selection
\* before any handler of call_tool_async is in place; wait_for re-raises the
\* task's exception and the outermost handler turns it into a text
TaskRaises(i) ==
    /\ inv[i].pc = "created" /\ ~inv[i].cancel
    /\ inv' = [inv EXCEPT ![i].pc = "done", ![i].req = OddSelection,
                          ![i].result = OuterBoundary("AttributeError")]
    /\ UNCHANGED <<http_semaphore, waiters>>
    /\ Frame

\* app.py:195-199  the task starts, creates the semaphore if it is None and
\* enters `async with http_semaphore`: it takes a slot and begins its first
\* attempt, or joins the deque and suspends
Admit(i) ==
    /\ inv[i].pc = "created" /\ ~inv[i].cancel
    /\ LET S1 == [S0 EXCEPT !.sem = IF @.created THEN @ ELSE NewSemaphore] IN
       IF ~Locked(S1)
       THEN \E callee \in Callees :
              Install([S1 EXCEPT !.sem.value = @ - 1,
                                 !.I[i] = BeginAttempt(@, callee)])
       ELSE Install([S1 EXCEPT !.ws = Append(@, i), !.I[i].pc = "waiting"])
    /\ Frame

\* Semaphore.acquire after `await fut`: the granted waiter resumes, leaves
\* the deque, wakes the next waiter if a slot is free, and begins its first
\* attempt
Resume(i) ==
    /\ inv[i].pc = "granted" /\ ~inv[i].cancel
    /\ \E callee \in Callees :
         LET S1 == [S0 EXCEPT !.ws = Without(@, i),
                              !.I[i] = BeginAttempt(@, callee)]
             S2 == IF S1.sem.value > 0 THEN WakeUpNext(S1) ELSE S1
         IN  Install(S2)
    /\ Frame

\* mcp_client.py:105-111  the session block of the bridge ends, with a raw
\* result or an exception, and the teardown of the session begins
SessionEnds(i) ==
    /\ inv[i].pc = "attempting" /\ ~inv[i].cancel
    /\ inv[i].callee = "bridge"
    /\ \E raw \in RawOutcomes :
         inv' = [inv EXCEPT ![i].pc = "closing",
                            ![i].raw = Some(Summary(CallServerTool(raw, TRUE)))]
    /\ UNCHANGED <<http_semaphore, waiters>>
    /\ Frame

\* mcp_client.py:113-165, app.py:109, :199-203, :257-277  the session is
\* closed; call_server_tool normalises, logs and returns (the arguments come
\* from json.loads, app.py:242, so json.dumps accepts them); the retry
\* wrapper takes its step on that outcome
BridgeReturns(i) ==
    /\ inv[i].pc = "closing" /\ ~inv[i].cancel
    /\ LET out == inv[i].raw[1]
           o == IF out.outcome = "return" THEN "ok" ELSE out.cls
           r == RetryIterate(inv[i].retry, o)
           S1 == [S0 EXCEPT !.I[i] = CloseSession(@), !.I[i].raw = None,
                            !.I[i].met = out.cls,
                            !.I[i].records = @ + out.records]
       IN  Install(AfterRetryStep(S1, i, r, out.success))
    /\ Frame

\* app.py:109  the test double ends: it returns a ToolResponse or raises
StubEnds(i) ==
    /\ inv[i].pc = "attempting" /\ ~inv[i].cancel
    /\ inv[i].callee = "stub"
    /\ \E o \in StubOutcomes, success \in BOOLEAN :
         (o = "ok" \/ ~success)
         /\ Install(AfterRetryStep(
                        [S0 EXCEPT !.I[i].met = IF o = "ok" THEN "None" ELSE o],
                        i, RetryIterate(inv[i].retry, o), success))
    /\ Frame

\* app.py:116, :107-109  the backoff sleep ends and the loop awaits the same
\* coroutine object again
BackoffEnds(i) ==
    /\ inv[i].pc = "backoff" /\ ~inv[i].cancel
    /\ \E o \in StubOutcomes :
         Install(AfterRetryStep([S0 EXCEPT !.I[i].started = @ + 1], i,
                                RetryIterate(RetryWake(inv[i].retry), o), FALSE))
    /\ Frame

\* app.py:212  wait_for: the timeout elapses with the task unfinished and
\* the task is cancelled (the future it waits on is cancelled at once when
\* still pending)
TimeoutFires(i) ==
    /\ inv[i].timed
    /\ inv[i].pc \in Running /\ ~inv[i].cancel
    /\ inv' = [inv EXCEPT ![i].cancel = TRUE, ![i].struck = Phase(inv[i].pc)]
    /\ UNCHANGED <<http_semaphore, waiters>>
    /\ Frame

\* the cancelled task runs: CancelledError is raised at its suspension
\* point and unwinds it (no handler of the chain catches it: they catch
\* Exception).  Not yet started: it ends at once.  Waiting: it leaves the
\* deque.  Granted: it leaves the deque and gives the slot back
\* (Semaphore.acquire's except CancelledError).  In backoff, or in a test
\* double: `async with` releases the slot.  In the bridge's session: the
\* session's teardown begins.
CancelDelivered(i) ==
    /\ inv[i].cancel
    /\ inv[i].pc \in Running \ {"teardown"}
    /\ LET pc == inv[i].pc
           gone == [S0 EXCEPT !.I[i].pc = "cancelled"]
       IN  CASE pc = "created" -> Install(gone)
             [] pc = "waiting" -> Install([gone EXCEPT !.ws = Without(@, i)])
             [] pc = "granted" ->
                  Install(Release([gone EXCEPT !.ws = Without(@, i)]))
             [] pc \in {"attempting", "closing"} /\ inv[i].callee = "bridge" ->
                  Install([S0 EXCEPT !.I[i].pc = "teardown", !.I[i].raw = None])
             [] OTHER -> Install(ExitSemaphore(gone, "cancel"))
    /\ Frame

\* mcp_client.py:105-107  the cancelled bridge call has torn its session
\* down; the unwinding leaves `async with http_semaphore` and the task ends
TeardownDone(i) ==
    /\ inv[i].pc = "teardown"
    /\ Install(ExitSemaphore([S0 EXCEPT !.I[i] = CloseSession(@),
                                        !.I[i].pc = "cancelled"], "cancel"))
    /\ Frame

\* app.py:213-219  the timeout handler awaits the cancelled task
AwaitsTask(p) == p.pc = "cancelled"

\* app.py:213-220  except asyncio.TimeoutError: cancel, await the task,
\* return the timeout text
ReturnTimeout(i) ==
    /\ inv[i].cancel /\ inv[i].result = "none"
    /\ AwaitsTask(inv[i])
    /\ inv' = [inv EXCEPT ![i].result = "timeout"]
    /\ UNCHANGED <<http_semaphore, waiters>>
    /\ Frame

Next ==
    \E i \in Invocations :
        \/ Submit(i) \/ Reject(i) \/ TaskRaises(i) \/ Admit(i) \/ Resume(i)
        \/ SessionEnds(i) \/ BridgeReturns(i) \/ StubEnds(i) \/ BackoffEnds(i)
        \/ TimeoutFires(i) \/ CancelDelivered(i) \/ TeardownDone(i)
        \/ ReturnTimeout(i)

Spec == Init /\ [][Next]_vars

(***************************************************************************)
(* SpecSurface: the two ways the UI reaches an invocation.  create_app     *)
(* binds the execute button to call_tool_with_timeout_async (Gradio 4.0    *)
(* and later, app.py:408-431) or to the synchronous wrapper call_tool      *)
(* (Gradio 3.x, app.py:432-455), which runs call_tool_async to completion  *)
(* on the event loop with no wait_for around it (app.py:316-318).          *)
(* timed: the invocation came through wait_for.  late: the timeout period  *)
(* (30 s by default) has passed since an invocation without a timer began. *)
(***************************************************************************)
InitSurface ==
    /\ http_semaphore \in {NoSemaphore, NewSemaphore}
    /\ waiters = << >>
    /\ inv \in [Invocations -> {[Fresh EXCEPT !.timed = b] : b \in BOOLEAN}]
    /\ rt = Idle
    /\ br = Idle
    /\ textSink = << >>
    /\ jsonSink = << >>
    /\ ds = Idle
    /\ ts = Idle

\* app.py:316-318  call_tool: nothing watches the clock; the period passes
\* and the invocation goes on as before
TimePasses(i) ==
    /\ ~inv[i].timed /\ ~inv[i].late
    /\ inv[i].pc \in Running
    /\ inv' = [inv EXCEPT ![i].late = TRUE]
    /\ UNCHANGED <<http_semaphore, waiters>>
    /\ Frame

NextSurface == Next \/ \E i \in Invocations : TimePasses(i)

SpecSurface == InitSurface /\ [][NextSurface]_vars

(***************************************************************************)
(* The tool cache, ThreadSafeToolStore (app.py:30-47), with Python's       *)
(* object model: a list is an object on the heap, named by an identity;    *)
(* _tools maps a server name to the identity of its list (0: no key).      *)
(* Every method runs under the store's lock, so each is one step.  A cache *)
(* entry is a (label, schema) pair (app.py:290).                           *)
(***************************************************************************)
Servers == {"s1", "s2"}
\* a server name that is never a key of the cache
NoSuchServer == "s9"
Labels == {"a - A", "b - B"}
\* the pair a caller appends to a list it was handed
Extra == <<"b - B", "{y}">>
\* the lists initialize_tools_async may store (app.py:290)
ToolLists ==
    {<<<<"a - A", "{x}">>>>, <<<<"a - A", "{y}">>, <<"b - B", "{x}">>>>}
\* Longest list a caller grows by appending.
MaxLen == 2

\* Identities: one list per server in the store, one per server still held
\* through an older whole-mapping copy, one single-server copy, one being
\* created.
NObj == 2 * Cardinality(Servers) + 2
Objs == 1..NObj

\* app.py:31-33  __init__
NewStore == [tools |-> [s \in Servers |-> 0], heap |-> [o \in Objs |-> << >>]]

SetToolsEverywhere(t, s, o) == [t EXCEPT !.tools = [x \in Servers |-> o]]

\* app.py:35-37  set_tools: _tools[server_name] = tools (the caller's list
\* object itself, o)
SetTools(t, s, o) == [t EXCEPT !.tools[s] = o]

\* app.py:43  self._tools.get(server_name, [])
GetList(t, s) ==
    IF s \in Servers /\ t.tools[s] # 0 THEN t.heap[t.tools[s]] ELSE << >>

\* app.py:43  .copy(): the object get_tools(server_name) hands out is a new
\* list (identity new), not the stored one (identity live)
CopyTargetLive(live, new) == IF live # 0 THEN live ELSE new
CopyTarget(live, new) == new

\* app.py:39-43  get_tools(server_name)
GetToolsOne(t, s, new) ==
    LET live == IF s \in Servers THEN t.tools[s] ELSE 0
        h == CopyTarget(live, new)
    IN  [store |-> [t EXCEPT !.heap[h] = GetList(t, s)], handle |-> h]

\* app.py:41-42  get_tools(): self._tools.copy(), a new dict whose values
\* are the stored list objects themselves
GetToolsAll(t) == t.tools

\* app.py:45-47  clear
ClearStore(t) == [t EXCEPT !.tools = [s \in Servers |-> 0]]

\* what later get_tools calls return: per server, whether it is a key and
\* its list
View(t) == [s \in Servers |-> [key |-> t.tools[s] # 0, list |-> GetList(t, s)]]

\* the objects still referenced: by the store, by the single-server copy a
\* caller holds (lsnap), by the whole-mapping copy a caller holds (msnap)
Roots(t) ==
    {t.tools[s] : s \in Servers}
    \cup (IF t.lsnap = None THEN {} ELSE {t.lsnap[1].obj})
    \cup (IF t.msnap = None THEN {} ELSE {t.msnap[1].map[s] : s \in DOMAIN t.msnap[1].map})

\* an identity not in use (list creation)
FreshObj(t) ==
    CHOOSE o \in Objs \ Roots(t) : \A q \in Objs \ Roots(t) : o <= q

\* the references held, in a fixed order (0: none)
ServerOrder == <<"s1", "s2">>
Refs(t) ==
    [k \in 1..Len(ServerOrder) |-> t.tools[ServerOrder[k]]]
    \o <<IF t.lsnap = None THEN 0 ELSE t.lsnap[1].obj>>
    \o [k \in 1..Len(ServerOrder) |->
           IF t.msnap = None THEN 0 ELSE t.msnap[1].map[ServerOrder[k]]]

\* Unreferenced objects are reclaimed.  An identity is only a name: the
\* referenced objects are renamed 1, 2, ... in the order Refs meets them, so
\* that two heaps differing only in the names are one state.
Rename(t, o) ==
    IF o = 0 THEN 0
    ELSE LET r == Refs(t)
             first == CHOOSE k \in 1..Len(r) : r[k] = o /\ \A j \in 1..(k - 1) : r[j] # o
         IN  Cardinality({r[j] : j \in 1..(first - 1)} \ {0}) + 1

Collect(t) ==
    LET live == Roots(t) \ {0} IN
    [t EXCEPT
       !.heap = [n \in Objs |->
                   IF \E o \in live : Rename(t, o) = n
                   THEN t.heap[CHOOSE o \in live : Rename(t, o) = n]
                   ELSE << >>],
       !.tools = [s \in Servers |-> Rename(t, t.tools[s])],
       !.lsnap = IF t.lsnap = None THEN None
                 ELSE Some([t.lsnap[1] EXCEPT !.obj = Rename(t, @)]),
       !.msnap = IF t.msnap = None THEN None
                 ELSE Some([map |-> [s \in Servers |-> Rename(t, t.msnap[1].map[s])]])]

\* app.py:178  if tool_name == tool_dropdown
LabelMatchesAny(tool_name, label) == TRUE
LabelMatches(tool_name, label) == tool_name = label

\* app.py:176-184  the loop over the (label, schema) pairs: the schema of
\* the first pair whose label matches, "{}" when none does
RECURSIVE FindSchema(_, _, _)
FindSchema(tools, label, k) ==
    IF k > Len(tools) THEN "{}"
    ELSE IF LabelMatches(tools[k][1], label) THEN tools[k][2]
    ELSE FindSchema(tools, label, k + 1)

\* a server_name value that cannot be a dict key (a list): get_tools raises
\* TypeError on it
Unhashable == "[unhashable]"
LookupServers == Servers \cup {NoSuchServer, Unhashable}
LookupLabels == Labels \cup {"", "z - Z"}

\* app.py:159-189  get_tool_schema_async: the returned string, whether the
\* function raised, and the store afterwards
GetToolSchema(t, server, label, new) ==
    IF label = "" THEN [result |-> "{}", raised |-> FALSE, store |-> t]   \* :161-164
    ELSE IF server = Unhashable
    THEN [result |-> "{}", raised |-> FALSE, store |-> t]                 \* :185-189
    ELSE LET g == GetToolsOne(t, server, new)                             \* :173
         IN  [result |-> FindSchema(g.store.heap[g.handle], label, 1),
              raised |-> FALSE,
              store |-> Collect(g.store)]

(***************************************************************************)
(* SpecStore: the cache with its callers.  Callers store lists, take       *)
(* copies (of one server's list, of the whole mapping) and change what     *)
(* they were handed.  expect is what the store has been told to hold: only *)
(* set_tools and clear change it.                                          *)
(***************************************************************************)
InitStore ==
    /\ ts = [pc |-> "store", tools |-> NewStore.tools, heap |-> NewStore.heap,
             lsnap |-> None, msnap |-> None, expect |-> View(NewStore),
             found |-> None]
    /\ http_semaphore = [created |-> FALSE, value |-> 0]
    /\ waiters = << >>
    /\ inv = [i \in Invocations |-> Idle]
    /\ rt = Idle
    /\ br = Idle
    /\ textSink = << >>
    /\ jsonSink = << >>
    /\ ds = Idle

Others == <<http_semaphore, waiters, inv, rt, br, textSink, jsonSink, ds>>

\* app.py:290-293  a caller builds a list and stores it
StoreSetOne(s, l) ==
    /\ LET o == FreshObj(ts)
           t1 == SetTools([ts EXCEPT !.heap[o] = l], s, o)
       IN  ts' = Collect([t1 EXCEPT !.expect = View(t1)])
    /\ UNCHANGED Others

StoreSet == \E s \in Servers, l \in ToolLists : StoreSetOne(s, l)

\* app.py:157, :173  a caller takes a copy of one server's list
StoreGetOne(s) ==
    /\ LET t0 == [ts EXCEPT !.lsnap = None]
           g == GetToolsOne(t0, s, FreshObj(t0))
       IN  ts' = Collect([g.store EXCEPT
                     !.lsnap = Some([obj |-> g.handle,
                                     seen |-> GetList(ts, s),
                                     touched |-> FALSE])])
    /\ UNCHANGED Others

StoreGet == \E s \in Servers \cup {NoSuchServer} : StoreGetOne(s)

\* app.py:41-42  a caller takes a copy of the whole mapping
StoreGetAll ==
    /\ ts' = Collect([ts EXCEPT !.msnap = Some([map |-> GetToolsAll(ts)])])
    /\ UNCHANGED Others

\* app.py:301, :345  clear
StoreClear ==
    /\ LET t1 == ClearStore(ts) IN ts' = Collect([t1 EXCEPT !.expect = View(t1)])
    /\ UNCHANGED Others

\* the caller appends to the list get_tools(server_name) returned
CallerAppends ==
    /\ ts.lsnap # None
    /\ Len(ts.heap[ts.lsnap[1].obj]) < MaxLen
    /\ ts' = [ts EXCEPT !.heap[ts.lsnap[1].obj] = Append(@, Extra),
                       !.lsnap[1].touched = TRUE]
    /\ UNCHANGED Others

\* the caller appends to a per-server list reached through the mapping
\* get_tools() returned
CallerAppendsThroughMapping ==
    /\ ts.msnap # None
    /\ \E s \in Servers :
         LET o == ts.msnap[1].map[s] IN
         /\ o # 0
         /\ Len(ts.heap[o]) < MaxLen
         /\ ts' = [ts EXCEPT !.heap[o] = Append(@, Extra)]
    /\ UNCHANGED Others

\* the caller removes a key from the mapping get_tools() returned
CallerEditsMapping ==
    /\ ts.msnap # None
    /\ \E s \in Servers :
         /\ ts.msnap[1].map[s] # 0
         /\ ts' = Collect([ts EXCEPT !.msnap[1].map[s] = 0])
    /\ UNCHANGED Others

\* app.py:159-189  a schema lookup
SchemaLookup ==
    /\ \E server \in LookupServers, label \in LookupLabels :
         LET g == GetToolSchema(ts, server, label, FreshObj(ts)) IN
         ts' = [g.store EXCEPT
                   !.found = Some([server |-> server, label |-> label,
                                   cached |-> GetList(ts, server),
                                   result |-> g.result, raised |-> g.raised,
                                   changed |-> View(g.store) # View(ts)])]
    /\ UNCHANGED Others

NextStore ==
    \/ StoreSet \/ StoreGet \/ StoreGetAll \/ StoreClear
    \/ CallerAppends \/ CallerAppendsThroughMapping \/ CallerEditsMapping

SpecStore == InitStore /\ [][NextStore]_vars

\* SpecCache: the three methods of the store alone; no caller changes what
\* it was handed.
NextCache == StoreSet \/ StoreGet \/ StoreGetAll \/ StoreClear

SpecCache == InitStore /\ [][NextCache]_vars

\* SpecLookup: the cache is filled and cleared, and schemas are looked up.
NextLookup == StoreSet \/ StoreClear \/ SchemaLookup

SpecLookup == InitStore /\ [][NextLookup]_vars

(***************************************************************************)
(* SpecConfig: configuration loads through create_app (app.py:324-345),    *)
(* one after another in one process.  tools_store and server_parameters    *)
(* are module globals: they outlive a call of create_app.                  *)
(***************************************************************************)
\* Number of configuration loads the model makes.
MaxLoads == 3

\* what discovery may give for one server: no tool, or one of the lists
DiscoveredLists == ToolLists \cup {<< >>}
\* how a load ends before the tools are read: load_server_config raises
\* (:330), create_server_parameters raises (:331), or both succeed
LoadOutcomes == {"load_fails", "params_fail", "ok"}
\* discovery raises for no server ("none") or for one (a patched
\* list_server_tools; the real one never raises)
NoFailure == "none"

\* app.py:282-301  initialize_tools_async over the servers from the k-th on:
\* each server's discovered list is converted and stored; an exception
\* clears the store and ends the loop
RECURSIVE InitializeTools(_, _, _, _, _)
InitializeTools(t, params, disc, failAt, k) ==
    IF k > Len(ServerOrder) THEN t
    ELSE LET s == ServerOrder[k] IN
         IF s \notin params THEN InitializeTools(t, params, disc, failAt, k + 1)
         ELSE IF s = failAt THEN ClearStore(t)                       \* :297-301
         ELSE LET o == FreshObj(t)
                  t1 == Collect(SetTools([t EXCEPT !.heap[o] = disc[s]], s, o))
              IN  InitializeTools(t1, params, disc, failAt, k + 1)

\* create_app without its except clause: the exception leaves create_app and
\* the globals and the store stay as they were
LoadFailurePropagates(t) == [t EXCEPT !.raised = TRUE]
\* app.py:339-345  the except clause of create_app: both globals become {}
\* and the store is cleared; create_app goes on to build the UI
LoadFailure(t) ==
    Collect([ClearStore(t) EXCEPT !.server_config = {},
                                  !.server_parameters = {},
                                  !.raised = FALSE])

\* app.py:326-345  create_app up to the construction of the UI
CreateAppLoad(t, outcome, config, disc, failAt) ==
    IF outcome # "ok"
    THEN LoadFailure(t)
    ELSE Collect(InitializeTools([t EXCEPT !.server_config = config,
                                           !.server_parameters = config,
                                           !.raised = FALSE],
                                 config, disc, failAt, 1))

\* app.py:130-141  list_servers_async: [] for an empty server_parameters,
\* else its keys
ListServersAsync(t) ==
    IF t.server_parameters = {} THEN << >>
    ELSE SelectSeq(ServerOrder, LAMBDA s : s \in t.server_parameters)

\* the server_name None
PyNone == "<None>"

\* app.py:143-157  list_tools_async (`not server_name` holds of "" and None)
ListToolsAsync(t, server_name) ==
    IF server_name \in {"", PyNone} \/ t.server_parameters = {} THEN << >>
    ELSE GetList(t, server_name)

InitConfig ==
    /\ ts = [pc |-> "config", tools |-> NewStore.tools, heap |-> NewStore.heap,
             lsnap |-> None, msnap |-> None,
             server_config |-> {}, server_parameters |-> {},
             raised |-> FALSE, last |-> "none", before |-> {}, loads |-> 0]
    /\ http_semaphore = [created |-> FALSE, value |-> 0]
    /\ waiters = << >>
    /\ inv = [i \in Invocations |-> Idle]
    /\ rt = Idle
    /\ br = Idle
    /\ textSink = << >>
    /\ jsonSink = << >>
    /\ ds = Idle

CreateApp ==
    /\ ts.loads < MaxLoads
    /\ \E outcome \in LoadOutcomes, config \in SUBSET Servers :
         \E disc \in [config -> DiscoveredLists], failAt \in config \cup {NoFailure} :
           ts' = [CreateAppLoad(ts, outcome, config, disc, failAt)
                     EXCEPT !.last = outcome,
                            !.before = {s \in Servers : ts.tools[s] # 0},
                            !.loads = @ + 1]
    /\ UNCHANGED Others

NextConfig == CreateApp

SpecConfig == InitConfig /\ [][NextConfig]_vars

(***************************************************************************)
(* SpecParams: create_server_parameters (config.py:42-84) on one           *)
(* configuration, under one host environment.  A dict is a function on the *)
(* set of its keys.                                                        *)
(***************************************************************************)
EnvKeys == {"PATH", "K"}
\* a key the dict does not hold
Absent == "<absent>"
\* the value each variable has in the host process, when it is set there
HostValue == [PATH |-> "/usr/bin", K |-> "host-K"]
\* the values a configuration gives a variable: empty, or its own
ConfigValues == {"", "/opt/bin"}
Has(d, k) == d[k] # Absent
EmptyDict == [k \in EnvKeys |-> Absent]

\* config.py:47-56  the loop over server_config["env"], when the server has
\* one: an empty value whose key the host has set is taken from the host,
\* every other value is copied (an empty value of a key the host has not set
\* stays empty)
EnvFromConfig(server_config, host) ==
    IF ~server_config.has_env THEN EmptyDict
    ELSE [k \in EnvKeys |->
            IF ~Has(server_config.env, k) THEN Absent
            ELSE IF server_config.env[k] = "" /\ Has(host, k) THEN host[k]
            ELSE server_config.env[k]]

\* config.py:58-61 with a configured PATH kept when there is one
PropagatePathIfMissing(env_vars, host) ==
    IF Has(host, "PATH") /\ ~Has(env_vars, "PATH")
    THEN [env_vars EXCEPT !["PATH"] = host["PATH"]]
    ELSE env_vars
\* config.py:58-61  PATH of the host, when it has one, is written over
\* whatever env_vars holds for PATH
PropagatePath(env_vars, host) ==
    IF Has(host, "PATH") THEN [env_vars EXCEPT !["PATH"] = host["PATH"]]
    ELSE env_vars

\* config.py:46-82  one turn of the loop, as far as the environment goes
ServerEnv(server_config, host) ==
    PropagatePath(EnvFromConfig(server_config, host), host)

\* config.py:42-84  create_server_parameters: one StdioServerParameters for
\* each server of config["mcpServers"]
CreateServerParameters(config, host) ==
    [s \in DOMAIN config |-> [env |-> ServerEnv(config[s], host)]]

InitParams ==
    /\ \E hostKeys \in SUBSET EnvKeys, servers \in (SUBSET Servers) \ {{}} :
         \E config \in [servers -> [has_env : {TRUE},
                                    env : [EnvKeys -> ConfigValues \cup {Absent}]]
                                   \cup {[has_env |-> FALSE, env |-> EmptyDict]}] :
           ts = [pc |-> "params",
                 host |-> [k \in EnvKeys |->
                             IF k \in hostKeys THEN HostValue[k] ELSE Absent],
                 config |-> config,
                 params |-> None]
    /\ http_semaphore = [created |-> FALSE, value |-> 0]
    /\ waiters = << >>
    /\ inv = [i \in Invocations |-> Idle]
    /\ rt = Idle
    /\ br = Idle
    /\ textSink = << >>
    /\ jsonSink = << >>
    /\ ds = Idle

Translate ==
    /\ ts.params = None
    /\ ts' = [ts EXCEPT !.params = Some(CreateServerParameters(ts.config, ts.host))]
    /\ UNCHANGED Others

NextParams == Translate

SpecParams == InitParams /\ [][NextParams]_vars

(***************************************************************************)
(* SpecDebugger: AgnoMCPDebugger (ollama_mcp/debug_module.py:19-232), its  *)
(* three in-memory lists.  An entry is the number of its append to its     *)
(* list (its place in insertion order); n counts the appends made to a     *)
(* list since construction and base is n at the last clear of the list.    *)
(* Init is a debugger after some appends and no drop yet: the lists are    *)
(* empty or filled to the brim or one short of it.                         *)
(***************************************************************************)
max_logs == 100
max_tool_calls == 50
max_errors == 50
MaxOps == 3

\* s[-m:] of Python, m > 0
LastOf(s, m) ==
    IF Len(s) <= m THEN s ELSE SubSeq(s, Len(s) - m + 1, Len(s))
\* s[:m], the slice that keeps the oldest entries
FirstOf(s, m) ==
    IF Len(s) <= m THEN s ELSE SubSeq(s, 1, m)

\* debug_module.py:87-89, :114-116, :134-136  append, then cut to the limit
AppendKeepingOldest(list, entry, limit) ==
    LET l == Append(list, entry) IN
    IF Len(l) > limit THEN FirstOf(l, limit) ELSE l
AppendBounded(list, entry, limit) ==
    LET l == Append(list, entry) IN
    IF Len(l) > limit THEN LastOf(l, limit) ELSE l

\* debug_module.py:216-232  _rotate_log_file ends by logging "Rotated log
\* file"; the new file is empty, so that log does not rotate again
\* debug_module.py:71-97  log.  rotate: the log file has outgrown
\* max_log_size
Log(d, rotate) ==
    LET d1 == [d EXCEPT !.nlogs = @ + 1,
                        !.logs = AppendBounded(@, d.nlogs + 1, max_logs)]
    IN  IF rotate
        THEN [d1 EXCEPT !.nlogs = @ + 1,
                        !.logs = AppendBounded(@, d1.nlogs + 1, max_logs)]
        ELSE d1

\* debug_module.py:99-118  record_tool_call
RecordToolCall(d) ==
    [d EXCEPT !.ntools = @ + 1,
              !.tool_calls = AppendBounded(@, d.ntools + 1, max_tool_calls)]

\* debug_module.py:120-139  record_error, which ends by logging the error
RecordError(d, rotate) ==
    Log([d EXCEPT !.nerrors = @ + 1,
                  !.errors = AppendBounded(@, d.nerrors + 1, max_errors)],
        rotate)

\* debug_module.py:201-214  clear_logs, clear_tool_calls, clear_errors: the
\* list is replaced by an empty one and the clearing is logged
ClearLogs(d, rotate) == Log([d EXCEPT !.logs = << >>, !.blogs = d.nlogs], rotate)
ClearToolCalls(d, rotate) ==
    Log([d EXCEPT !.tool_calls = << >>, !.btools = d.ntools], rotate)
ClearErrors(d, rotate) ==
    Log([d EXCEPT !.errors = << >>, !.berrors = d.nerrors], rotate)

InitDebugger ==
    /\ \E nl \in {0, max_logs - 1, max_logs},
          nt \in {0, max_tool_calls - 1, max_tool_calls},
          ne \in {0, max_errors - 1, max_errors} :
         ts = [pc |-> "debugger",
               logs |-> [k \in 1..nl |-> k], nlogs |-> nl, blogs |-> 0,
               tool_calls |-> [k \in 1..nt |-> k], ntools |-> nt, btools |-> 0,
               errors |-> [k \in 1..ne |-> k], nerrors |-> ne, berrors |-> 0,
               ops |-> 0]
    /\ http_semaphore = [created |-> FALSE, value |-> 0]
    /\ waiters = << >>
    /\ inv = [i \in Invocations |-> Idle]
    /\ rt = Idle
    /\ br = Idle
    /\ textSink = << >>
    /\ jsonSink = << >>
    /\ ds = Idle

DebuggerStep(d) ==
    /\ ts.pc = "debugger" /\ ts.ops < MaxOps
    /\ ts' = [d EXCEPT !.ops = @ + 1]
    /\ UNCHANGED Others

DoLog == \E rotate \in BOOLEAN : DebuggerStep(Log(ts, rotate))
DoRecordToolCall == DebuggerStep(RecordToolCall(ts))
DoRecordError == \E rotate \in BOOLEAN : DebuggerStep(RecordError(ts, rotate))
DoClearLogs == \E rotate \in BOOLEAN : DebuggerStep(ClearLogs(ts, rotate))
DoClearToolCalls == \E rotate \in BOOLEAN : DebuggerStep(ClearToolCalls(ts, rotate))
DoClearErrors == \E rotate \in BOOLEAN : DebuggerStep(ClearErrors(ts, rotate))

NextDebugger ==
    \/ DoLog \/ DoRecordToolCall \/ DoRecordError
    \/ DoClearLogs \/ DoClearToolCalls \/ DoClearErrors

SpecDebugger == InitDebugger /\ [][NextDebugger]_vars

(***************************************************************************)
(* SpecClient: OllamaMCPClient (ollama_mcp/client.py:13-111).  The client  *)
(* is its connected flag, its server_info, the names in its tool registry  *)
(* and the number of entries its DebugLogger holds.  last is the latest of *)
(* connect_to_server and close; op, raised and pre describe the latest     *)
(* call: which it was, whether it raised, and the client before it.        *)
(***************************************************************************)
MaxClientOps == 5
ServerPaths == {"mock://a", "mock://b"}
NoServerInfo == "None"

\* client.py:23-38  __init__ (one log entry)
NewClient ==
    [connected |-> FALSE, server_info |-> NoServerInfo, tools |-> {}, nlogs |-> 1]

\* client.py:40-77  connect_to_server: log, register the tools, set the
\* flag and server_info, log
ConnectToServer(c, server_path) ==
    [c EXCEPT !.tools = @ \cup {"weather"},
              !.connected = TRUE,
              !.server_info = server_path,
              !.nlogs = @ + 2]

\* client.py:89-90  if not self.connected: raise RuntimeError(...)
NotConnectedNever(c) == FALSE
NotConnected(c) == ~c.connected

\* client.py:79-101  process_query: raises when not connected, else logs
\* twice and returns the response
ProcessQuery(c) ==
    IF NotConnected(c)
    THEN [raised |-> TRUE, client |-> c]
    ELSE [raised |-> FALSE, client |-> [c EXCEPT !.nlogs = @ + 2]]

\* client.py:103-110  close: when connected, clear the flag and log
Close(c) ==
    IF c.connected THEN [c EXCEPT !.connected = FALSE, !.nlogs = @ + 1] ELSE c

InitClient ==
    /\ ts = [pc |-> "client", client |-> NewClient, last |-> "none",
             op |-> "none", raised |-> FALSE, pre |-> NewClient, ops |-> 0]
    /\ http_semaphore = [created |-> FALSE, value |-> 0]
    /\ waiters = << >>
    /\ inv = [i \in Invocations |-> Idle]
    /\ rt = Idle
    /\ br = Idle
    /\ textSink = << >>
    /\ jsonSink = << >>
    /\ ds = Idle

ClientConnects ==
    /\ ts.pc = "client" /\ ts.ops < MaxClientOps
    /\ \E server_path \in ServerPaths :
         ts' = [ts EXCEPT !.client = ConnectToServer(@, server_path),
                          !.last = "connect", !.op = "connect",
                          !.raised = FALSE, !.pre = ts.client, !.ops = @ + 1]
    /\ UNCHANGED Others

ClientQueries ==
    /\ ts.pc = "client" /\ ts.ops < MaxClientOps
    /\ LET out == ProcessQuery(ts.client) IN
       ts' = [ts EXCEPT !.client = out.client, !.op = "query",
                        !.raised = out.raised, !.pre = ts.client, !.ops = @ + 1]
    /\ UNCHANGED Others

ClientCloses ==
    /\ ts.pc = "client" /\ ts.ops < MaxClientOps
    /\ ts' = [ts EXCEPT !.client = Close(@), !.last = "close", !.op = "close",
                        !.raised = FALSE, !.pre = ts.client, !.ops = @ + 1]
    /\ UNCHANGED Others

NextClient == ClientConnects \/ ClientQueries \/ ClientCloses

SpecClient == InitClient /\ [][NextClient]_vars

(***************************************************************************)
(* ThreadSafeToolStore under threads (app.py:30-47).  Each method body is  *)
(* `with self._lock:` around one dictionary statement; the lock is a       *)
(* threading.RLock.  A thread is between calls ("idle"), blocked on the    *)
(* lock ("waiting"), inside the with block before ("in") or after ("exit") *)
(* its statement, or parked at an await of the event loop ("suspended").   *)
(***************************************************************************)
Threads == {1, 2}
MaxLockOps == 4
Lists == {"L1", "L2"}
StoreValues == [Servers -> Lists \cup {"none"}]
FreeLock == [owner |-> 0, count |-> 0]

CanAcquireAlways(l, t) == TRUE

\* RLock.acquire: free, or already owned by the calling thread
CanAcquire(l, t) == l.owner \in {0, t}

LockAcquire(l, t) == [owner |-> t, count |-> l.count + 1]

LockRelease(l) == IF l.count = 1 THEN FreeLock ELSE [l EXCEPT !.count = @ - 1]

StoreRequests ==
    {[op |-> "set", s |-> s, tools |-> l] : s \in Servers, l \in Lists}
    \cup {[op |-> "get", s |-> s, tools |-> "none"] : s \in Servers \cup {"None"}}
    \cup {[op |-> "clear", s |-> "None", tools |-> "none"]}

NoReturn == [s \in Servers |-> "unset"]

\* get_tools on the dictionary d: a copy of the dictionary for None, else a
\* copy of the entry's list, or of [] when the key is missing
GetToolsOf(d, server_name) ==
    IF server_name = "None" THEN d
    ELSE [s \in Servers |->
            IF s # server_name THEN "unset"
            ELSE IF d[s] = "none" THEN "empty" ELSE d[s]]

\* the dictionary statement of each method
StoreStatement(d, req) ==
    CASE req.op = "set" -> [d EXCEPT ![req.s] = req.tools]
      [] req.op = "clear" -> [s \in Servers |-> "none"]
      [] OTHER -> d

NewThread == [pc |-> "idle", req |-> [op |-> "none", s |-> "None", tools |-> "none"],
              ret |-> NoReturn, hist |-> {}]

InitLock ==
    /\ \E d \in StoreValues :
         ts = [pc |-> "lock", tools |-> d, lock |-> FreeLock, ops |-> 0,
               th |-> [t \in Threads |-> NewThread]]
    /\ http_semaphore = [created |-> FALSE, value |-> 0]
    /\ waiters = << >>
    /\ inv = [i \in Invocations |-> Idle]
    /\ rt = Idle
    /\ br = Idle
    /\ textSink = << >>
    /\ jsonSink = << >>
    /\ ds = Idle

\* a thread calls one of the three methods and reaches `with self._lock:`
ThreadCalls(t) ==
    /\ ts.pc = "lock" /\ ts.th[t].pc = "idle" /\ ts.ops < MaxLockOps
    /\ \E req \in StoreRequests :
         ts' = [ts EXCEPT !.ops = @ + 1,
                          !.th[t] = [pc |-> "waiting", req |-> req,
                                     ret |-> NoReturn, hist |-> {ts.tools}]]
    /\ UNCHANGED Others

ThreadAcquires(t) ==
    /\ ts.pc = "lock" /\ ts.th[t].pc = "waiting"
    /\ CanAcquire(ts.lock, t)
    /\ ts' = [ts EXCEPT !.lock = LockAcquire(@, t), !.th[t].pc = "in"]
    /\ UNCHANGED Others

\* the statement inside the with block; hist of every thread that is inside
\* a call collects the dictionary values that existed during its call
ThreadRuns(t) ==
    /\ ts.pc = "lock" /\ ts.th[t].pc = "in"
    /\ LET req == ts.th[t].req
           d == StoreStatement(ts.tools, req)
       IN ts' = [ts EXCEPT
                   !.tools = d,
                   !.th = [u \in Threads |->
                             IF u = t
                             THEN [@[u] EXCEPT
                                     !.pc = "exit",
                                     !.ret = IF req.op = "get"
                                             THEN GetToolsOf(ts.tools, req.s)
                                             ELSE NoReturn,
                                     !.hist = @ \cup {d}]
                             ELSE IF @[u].pc = "idle" \/ @[u].pc = "suspended"
                                  THEN @[u]
                                  ELSE [@[u] EXCEPT !.hist = @ \cup {d}]]]
    /\ UNCHANGED Others

\* leaving the with block releases the lock; the method returns
ThreadReleases(t) ==
    /\ ts.pc = "lock" /\ ts.th[t].pc = "exit"
    /\ ts' = [ts EXCEPT !.lock = LockRelease(@), !.th[t].pc = "idle"]
    /\ UNCHANGED Others

\* an invocation between two store calls reaches an await (app.py:287) ...
ThreadSuspends(t) ==
    /\ ts.pc = "lock" /\ ts.th[t].pc = "idle" /\ ts.ops < MaxLockOps
    /\ ts' = [ts EXCEPT !.ops = @ + 1, !.th[t].pc = "suspended"]
    /\ UNCHANGED Others

\* ... and is resumed
ThreadResumes(t) ==
    /\ ts.pc = "lock" /\ ts.th[t].pc = "suspended"
    /\ ts' = [ts EXCEPT !.th[t].pc = "idle"]
    /\ UNCHANGED Others

NextLock ==
    \E t \in Threads :
        \/ ThreadCalls(t)
        \/ ThreadAcquires(t)
        \/ ThreadRuns(t)
        \/ ThreadReleases(t)
        \/ ThreadSuspends(t)
        \/ ThreadResumes(t)

SpecLock == InitLock /\ [][NextLock]_vars

(***************************************************************************)
(* SpecArgs: the arguments of create_server_parameters (config.py:63-78)   *)
(* and convert_windows_path_to_wsl (config.py:8-22).  A string is the      *)
(* sequence of its characters.                                             *)
(***************************************************************************)
MaxArgs == 2
Slash == "/"
Backslash == "\\"
Colon == ":"
\* "C:\a", "D:/a", "/a/b", "ab://x", "a\b", "-v", "k:v"
ArgPool ==
    {<<"C", Colon, Backslash, "a">>, <<"D", Colon, Slash, "a">>,
     <<Slash, "a", Slash, "b">>, <<"a", "b", Colon, Slash, Slash, "x">>,
     <<"a", Backslash, "b">>, <<"-", "v">>, <<"k", Colon, "v">>}
Commands == {"node", "cmd.exe", "python"}

Contains(p, c) == \E k \in 1..Len(p) : p[k] = c
StartsWith(p, q) == Len(p) >= Len(q) /\ SubSeq(p, 1, Len(q)) = q
\* p[n:] with n counted from 0
From(p, n) == SubSeq(p, n + 1, Len(p))
\* str.lower on one character
Lower(c) == CASE c = "C" -> "c" [] c = "D" -> "d" [] OTHER -> c
Mnt == <<Slash, "m", "n", "t", Slash>>

\* config.py:8-22  convert_windows_path_to_wsl
ConvertWindowsPathToWsl(windows_path) ==
    LET p == [k \in 1..Len(windows_path) |->
                IF windows_path[k] = Backslash THEN Slash ELSE windows_path[k]]   \* :11
    IN  IF StartsWith(p, <<"C", Colon, Slash>>)                                   \* :14-15
        THEN Mnt \o <<"c">> \o From(p, 2)
        ELSE IF Contains(p, Colon)                                                \* :18-20
        THEN Mnt \o <<Lower(p[1])>> \o From(p, 2)
        ELSE p                                                                    \* :22

\* config.py:64
IsWindowsNative(command) ==
    command \in {"node", "cmd", "powershell", "cmd.exe", "powershell.exe"}

\* config.py:67-72  the loop over the arguments
ConvertedArgs(command, args) ==
    [k \in 1..Len(args) |->
       IF (Contains(args[k], Slash) \/ Contains(args[k], Backslash))
          /\ ~IsWindowsNative(command)
       THEN ConvertWindowsPathToWsl(args[k])
       ELSE args[k]]

\* config.py:74-78  the StdioServerParameters of one server
StdioServerParameters(server_config, host) ==
    [command |-> server_config.command,
     args |-> ConvertedArgs(server_config.command, server_config.args),
     env |-> ServerEnv(server_config, host)]

InitArgs ==
    /\ \E command \in Commands, n \in 0..MaxArgs :
         \E args \in [1..n -> ArgPool] :
           ts = [pc |-> "args",
                 host |-> [k \in EnvKeys |-> HostValue[k]],
                 config |-> [command |-> command, args |-> args,
                             has_env |-> FALSE, env |-> EmptyDict],
                 params |-> None]
    /\ http_semaphore = [created |-> FALSE, value |-> 0]
    /\ waiters = << >>
    /\ inv = [i \in Invocations |-> Idle]
    /\ rt = Idle
    /\ br = Idle
    /\ textSink = << >>
    /\ jsonSink = << >>
    /\ ds = Idle

TranslateArgs ==
    /\ ts.pc = "args" /\ ts.params = None
    /\ ts' = [ts EXCEPT !.params = Some(StdioServerParameters(ts.config, ts.host))]
    /\ UNCHANGED Others

NextArgs == TranslateArgs

SpecArgs == InitArgs /\ [][NextArgs]_vars

(***************************************************************************)
(* SpecLabel: the label a tool is cached under (app.py:290) and the tool   *)
(* name call_tool_async takes back out of it (app.py:229-235).  A string   *)
(* is the sequence of its characters.                                      *)
(***************************************************************************)
MaxNameLen == 5
NameChars == {"a", " ", "-"}
\* list_server_tools returns no tool with an empty name (mcp_client.py:54)
ToolNames == UNION {[1..n -> NameChars] : n \in 1..MaxNameLen}
Descriptions == {<<"A">>, <<"A", " ", "-", " ", "B">>}
Separator == <<" ", "-", " ">>

\* app.py:290  f"{tool.name} - {tool.description}"
LabelOf(name, description) == name \o Separator \o description

\* the index at which sep first occurs in s, 0 when it does not
FirstIndex(s, sep) ==
    LET hits == {k \in 1..(Len(s) - Len(sep) + 1) : SubSeq(s, k, k + Len(sep) - 1) = sep}
    IN  IF hits = {} THEN 0 ELSE CHOOSE k \in hits : \A j \in hits : k <= j

\* app.py:231, :233  tool_dropdown[0].split(" - ")[0]
ToolNameOf(label) ==
    LET k == FirstIndex(label, Separator)
    IN  IF k = 0 THEN label ELSE SubSeq(label, 1, k - 1)

InitLabel ==
    /\ \E name \in ToolNames, description \in Descriptions :
         ts = [pc |-> "label", name |-> name, description |-> description,
               label |-> None, tool_name |-> None]
    /\ http_semaphore = [created |-> FALSE, value |-> 0]
    /\ waiters = << >>
    /\ inv = [i \in Invocations |-> Idle]
    /\ rt = Idle
    /\ br = Idle
    /\ textSink = << >>
    /\ jsonSink = << >>
    /\ ds = Idle

\* app.py:287-293  initialize_tools_async caches the tool under its label
CacheLabel ==
    /\ ts.pc = "label" /\ ts.label = None
    /\ ts' = [ts EXCEPT !.label = Some(LabelOf(ts.name, ts.description))]
    /\ UNCHANGED Others

\* app.py:229-235, :252-257  call_tool_async with the cached pair: the tool
\* name it passes on to call_server_tool
CallWithLabel ==
    /\ ts.pc = "label" /\ ts.label # None /\ ts.tool_name = None
    /\ ts' = [ts EXCEPT !.tool_name = Some(ToolNameOf(ts.label[1]))]
    /\ UNCHANGED Others

NextLabel == CacheLabel \/ CallWithLabel

SpecLabel == InitLabel /\ [][NextLabel]_vars

(***************************************************************************)
(* Properties.                                                             *)
(***************************************************************************)

\* C1 (admission bound).  At most Capacity invocations are past admission
\* (handed a slot, attempting, closing, backing off or unwinding inside the
\* guarded block) in every state, and an invocation enters that set only in
\* a step that starts with a free slot or in which a slot holder leaves.
AdmissionBound == Cardinality(Holders) <= Capacity

AdmittedOnlyIntoFreeSlot ==
    \A i \in Invocations :
        (inv[i].pc \notin Admitted /\ inv'[i].pc \in Admitted)
        => \/ Cardinality(Holders) < Capacity
           \/ \E j \in Holders : inv'[j].pc \notin Admitted

C1_AdmissionBound == []AdmissionBound /\ [][AdmittedOnlyIntoFreeSlot]_vars

\* C1 witness: the semaphore is full and one more invocation has been handed
\* the slot a holder released.
C1_Witness ==
    \E i \in Invocations :
        /\ inv[i].pc = "granted"
        /\ Cardinality(Holders) = Capacity
        /\ \E j \in Invocations : inv[j].result # "none"

\* C2 (timeout frees the slot).  When call_tool_with_timeout_async has
\* returned the timeout text for an invocation, that invocation's task has
\* finished unwinding (it is cancelled, its session is not open, it is not
\* in the semaphore's deque) and the semaphore counts every slot not held
\* by another invocation as free.
C2_TimeoutFreesSlot ==
    \A i \in Invocations :
        inv[i].result = "timeout"
        => /\ inv[i].pc = "cancelled"
           /\ inv[i].session # "open"
           /\ \A k \in 1..Len(waiters) : waiters[k] # i
           /\ http_semaphore.created
                  => http_semaphore.value = Capacity - Cardinality(Holders)

\* C2 witness: the timeout text has been returned for one invocation struck
\* while waiting for admission and for another struck while holding the slot.
C2_Witness ==
    \E i, j \in Invocations :
        /\ inv[i].result = "timeout" /\ inv[i].struck = "waiting"
        /\ inv[j].result = "timeout" /\ inv[j].struck \in {"attempting", "backoff"}

\* C3 (response invariant).  Every ToolResponse returned by call_server_tool
\* has success true exactly when its error is None and its result is not
\* None, and has a log entry.
C3_ResponseInvariant ==
    br.pc = "returned"
    => LET r == br.response[1] IN
       /\ r.success <=> (r.error = None /\ r.result # None)
       /\ r.log_entry # None

\* C4 (one record per call).  A call of call_server_tool that returns has
\* added exactly one request line to the text sink and exactly one entry to
\* the JSON sink, and that entry's is_error is the negation of the returned
\* success.
RequestLinesSince(n) ==
    Cardinality({k \in (n + 1)..Len(textSink) : textSink[k].line = "REQUEST"})

C4_OneRecordPerCall ==
    br.pc = "returned"
    => /\ RequestLinesSince(br.textBefore) = 1
       /\ Len(jsonSink) = br.jsonBefore + 1
       /\ jsonSink[Len(jsonSink)].is_error = ~br.response[1].success

\* C5 (the bridge never raises).  call_server_tool never ends by raising,
\* and an exception raised in its session block comes back as a
\* ToolResponse with success false, error str(exception) and an
\* error-flagged log entry.
C5_NeverRaises ==
    /\ br.pc # "raised"
    /\ (br.pc = "returned" /\ br.raw.kind = "exc")
       => LET r == br.response[1] IN
          /\ ~r.success
          /\ r.error = Some(br.raw.msg)
          /\ r.log_entry # None /\ r.log_entry[1].is_error

\* C6 (discovery never raises).  list_server_tools never ends by raising;
\* on a total failure (the session block raised, the response has no tools
\* attribute or one that cannot be iterated) it returns the empty list and
\* has logged an error.
TotalFailure(raw) == raw.kind = "exc" \/ raw.tools \in {"absent", "not_iterable"}

C6_DiscoveryNeverRaises ==
    /\ ds.pc # "raised"
    /\ (ds.pc = "returned" /\ TotalFailure(ds.raw))
       => (ds.tools = << >> /\ ds.errors >= 1)

\* C6 witness: the subprocess failed to spawn and the empty list came back.
C6_Witness ==
    /\ ds.pc = "returned"
    /\ ds.raw.kind = "exc" /\ ds.raw.phase = "spawn"
    /\ ds.tools = << >> /\ ds.errors = 1

\* C7 (partial-entry skip).  From a raw tool list, list_server_tools returns
\* exactly the well-formed entries, in their order.  An entry is well formed
\* when it has a non-empty name, a description (the data model lets it be
\* empty) and a non-empty serialisable input schema.
WellFormed(e) ==
    /\ e.name = "present"
    /\ e.description \in {"empty", "present"}
    /\ e.inputSchema = "present"

RECURSIVE WellFormedIds(_, _)
WellFormedIds(entries, k) ==
    IF k > Len(entries) THEN << >>
    ELSE (IF WellFormed(entries[k]) THEN <<k>> ELSE << >>)
         \o WellFormedIds(entries, k + 1)

C7_ExactlyWellFormed ==
    (ds.pc = "returned" /\ ds.raw.kind = "response" /\ ds.raw.tools = "list")
    => [k \in 1..Len(ds.tools) |-> ds.tools[k].id] = WellFormedIds(ds.raw.entries, 1)

\* C8 (retry then success).  With max_retries = 3 and an underlying call
\* that fails with a transient error on its first and second run and
\* succeeds on its third, call_with_retry_async returns the success value
\* after three runs and two sleeps, the second at least twice the first.
FailsTwiceThenSucceeds(outs) ==
    /\ Len(outs) \in 1..3
    /\ \A k \in 1..Len(outs) :
         IF k <= 2 THEN outs[k] \in TransientErrors ELSE outs[k] = "ok"

C8_ThirdAttemptSucceeds ==
    (rt.pc = "done" /\ rt.max_retries = 3 /\ FailsTwiceThenSucceeds(rt.outs))
    => /\ rt.result = "ok"
       /\ Len(rt.outs) = 3
       /\ Len(rt.sleeps) = 2
       /\ rt.sleeps[2] >= 2 * rt.sleeps[1]

\* C9 (non-transient short circuit).  A run of the underlying call that
\* raises a non-transient error is the last one: the wrapper has ended,
\* raising that same exception, without sleeping after it; when it is the
\* first run there has been exactly one attempt and no sleep at all.
C9_NonTransientOnce ==
    \A k \in 1..Len(rt.outs) :
        rt.outs[k] \in OtherErrors
        => /\ k = Len(rt.outs)
           /\ rt.awaits = k
           /\ rt.pc = "done"
           /\ rt.raised = rt.outs[k]
           /\ rt.result = "none"
           /\ Len(rt.sleeps) = k - 1

\* C9 witness: the first run raised a non-transient error and the wrapper
\* ended at once.
C9_Witness ==
    /\ rt.pc = "done"
    /\ rt.outs \in {<<e>> : e \in OtherErrors}
    /\ rt.sleeps = << >>
    /\ rt.max_retries = DefaultMaxRetries

\* C10 (retry exhaustion).  When every run of the underlying call fails with
\* a transient error, call_with_retry_async ends after exactly max_retries
\* runs and max_retries - 1 sleeps, raising the exception of the last run.
C10_ExhaustionReraises ==
    (/\ rt.pc = "done"
     /\ Len(rt.outs) >= 1
     /\ \A k \in 1..Len(rt.outs) : rt.outs[k] \in TransientErrors)
    => /\ Len(rt.outs) = rt.max_retries
       /\ Len(rt.sleeps) = rt.max_retries - 1
       /\ rt.raised = rt.outs[Len(rt.outs)]

\* C11 (transient errors are retried).  An invocation surfaced as a failure
\* whose underlying call met a transient error (a connection error or a
\* timeout while spawning, during the handshake or during the call) has run
\* the underlying call as many times as the retry cap allows.
Surfaced == {"error_tool", "error_exception"}

C11_TransientRetried ==
    \A i \in Invocations :
        (/\ inv[i].result \in Surfaced
         /\ inv[i].met \in TransientErrors)
        => Len(inv[i].retry.outs) = inv[i].retry.max_retries

\* C12 (tool-reported failure).  When the raw result carries the error flag
\* (isError set), the ToolResponse call_server_tool returns has success
\* false and an error that is a non-empty string.
C12_ToolErrorSurfaced ==
    (br.pc = "returned" /\ br.raw.kind = "object" /\ br.raw.isError = "true")
    => LET r == br.response[1] IN
       /\ ~r.success
       /\ r.error # None
       /\ r.error # Some("")

\* C13 (snapshot stability).  The list a caller obtained from
\* get_tools(server) and has not changed itself still equals what it was
\* when obtained, whatever set_tools and clear calls came later.
C13_SnapshotStable ==
    (ts.pc = "store" /\ ts.lsnap # None /\ ~ts.lsnap[1].touched)
    => ts.heap[ts.lsnap[1].obj] = ts.lsnap[1].seen

\* C13 witness: a caller holds an unchanged non-empty snapshot of a list the
\* store no longer holds for any server (it was replaced or cleared since).
C13_Witness ==
    /\ ts.pc = "store" /\ ts.lsnap # None /\ ~ts.lsnap[1].touched
    /\ ts.lsnap[1].seen # << >>
    /\ ts.heap[ts.lsnap[1].obj] = ts.lsnap[1].seen
    /\ \A s \in Servers : GetList(ts, s) # ts.lsnap[1].seen

\* C14 (defensive copies).  What get_tools returns is decided by the
\* set_tools and clear calls alone: nothing a caller does to a value it was
\* handed (a list, the whole mapping, a list reached through the mapping)
\* changes it.
C14_DefensiveCopy == ts.pc = "store" => View(ts) = ts.expect

\* C19 (schema lookup).  get_tool_schema_async returns the schema cached
\* under the given label for the given server, "{}" when the label is empty
\* or is no cached label of that server (the server may have no entry, the
\* lookup may fail); it does not raise and leaves the cache as it was.
C19_SchemaLookup ==
    (ts.pc = "store" /\ ts.found # None)
    => LET f == ts.found[1]
           hits == {k \in 1..Len(f.cached) : f.cached[k][1] = f.label}
       IN  /\ ~f.raised
           /\ ~f.changed
           /\ IF f.label # "" /\ hits # {}
              THEN \E k \in hits : f.result = f.cached[k][2]
              ELSE f.result = "{}"

\* C19 witness: the label of the second cached pair was looked up and its
\* schema returned.
C19_Witness ==
    /\ ts.pc = "store" /\ ts.found # None
    /\ ts.found[1].label = "b - B"
    /\ ts.found[1].result = "{x}"

\* C15 (no stale tools).  After any sequence of configuration loads, every
\* server with a cache entry is a key of the current server_parameters, and
\* list_tools returns a non-empty list only for such a server.
C15_NoStaleTools ==
    ts.pc = "config"
    => \A s \in Servers :
         /\ ts.tools[s] # 0 => s \in ts.server_parameters
         /\ ListToolsAsync(ts, s) # << >> => s \in ts.server_parameters

\* C16 (nothing escapes to the UI).  call_tool_with_timeout_async never
\* ends by raising; when an exception escaped the invocation beneath it (out
\* of the retry wrapper, or out of call_tool_async itself) and no timeout
\* fired, what it returns is a failure text.
EscapedBeneath(p) == p.retry.raised # "none" \/ p.req = OddSelection

C16_NothingEscapes ==
    \A i \in Invocations :
        /\ inv[i].result # "raised"
        /\ (EscapedBeneath(inv[i]) /\ inv[i].result # "none" /\ ~inv[i].cancel)
           => inv[i].result \in {"error_exception", "error_outer"}

\* C16 witness: one invocation whose retry wrapper raised and another whose
\* task raised outside every handler of call_tool_async have both come back
\* as failure texts.
C16_Witness ==
    \E i, j \in Invocations :
        /\ inv[i].retry.raised # "none" /\ inv[i].result = "error_exception"
        /\ inv[j].req = OddSelection /\ inv[j].result = "error_outer"

\* C17 (timeout is a distinct outcome).  An invocation has returned the
\* timeout text exactly when its own timeout fired and cancelled it: a
\* failure of the call itself, a timeout error met inside the call
\* included, never comes back as the timeout text, and a fired timeout never
\* comes back as anything else.
C17_TimeoutDistinct ==
    \A i \in Invocations :
        inv[i].result # "none" => (inv[i].result = "timeout" <=> inv[i].cancel)

\* C17 witness: one invocation returned the timeout text, and another, whose
\* call met a timeout error inside and was not cancelled, returned an
\* ordinary failure.
C17_Witness ==
    \E i, j \in Invocations :
        /\ inv[i].result = "timeout" /\ inv[i].cancel
        /\ inv[j].met = "TimeoutError" /\ ~inv[j].cancel
        /\ inv[j].result \in Surfaced

\* C18 (failure marker).  Every failure outcome of call_tool (anything
\* returned but the success text) starts with the failure marker.
C18_FailureMarker ==
    \A i \in Invocations :
        inv[i].result \notin {"none", "success"} => HasFailureMarker(inv[i].result)

\* C20 (call_tool).  For a configured server, a label of its tool list and
\* valid JSON arguments, with no timeout fired, call_tool has invoked the
\* tool: it returns the success text exactly when it received a ToolResponse
\* with success true, and the failure text of the tool call otherwise.
ValidRequests == {"ok", "label_string"}

C20_CallTool ==
    \A i \in Invocations :
        (inv[i].req \in ValidRequests /\ inv[i].result # "none" /\ ~inv[i].cancel)
        => /\ inv[i].result \in {"success", "error_tool", "error_exception"}
           /\ inv[i].result = "success" <=> inv[i].response = "success"

\* C21 (failed load resets everything).  When load_server_config or
\* create_server_parameters raised inside the last create_app, create_app
\* did not raise, server_config and server_parameters are empty, the tool
\* cache has no entry and list_servers returns the empty list.
LoadFailed == ts.pc = "config" /\ ts.last \in {"load_fails", "params_fail"}

C21_FailedLoadResets ==
    LoadFailed
    => /\ ~ts.raised
       /\ ts.server_config = {}
       /\ ts.server_parameters = {}
       /\ \A s \in Servers : ts.tools[s] = 0
       /\ ListServersAsync(ts) = << >>

\* C21 witness: the failed load came after a successful one that had left
\* servers configured and tools cached.
C21_Witness ==
    /\ LoadFailed
    /\ ts.last = "params_fail"
    /\ ts.before = Servers
    /\ ts.server_parameters = {}

\* C22 (environment translation).  For every server of the configuration the
\* translated environment holds the host's PATH (when the host has one),
\* holds the host's value for every variable configured as the empty string
\* (when the host has set it), and holds every non-empty configured value
\* unchanged.
Translated == ts.pc = "params" /\ ts.params # None

C22_EnvTranslation ==
    Translated
    => \A s \in DOMAIN ts.config :
         LET env  == ts.params[1][s].env
             conf == ts.config[s].env
         IN  /\ Has(ts.host, "PATH") => env["PATH"] = ts.host["PATH"]
             /\ \A k \in EnvKeys :
                  Has(conf, k)
                  => /\ Has(env, k)
                     /\ (conf[k] = "" /\ Has(ts.host, k)) => env[k] = ts.host[k]
                     /\ conf[k] # "" => env[k] = conf[k]

\* C22 as amended: the translated environment holds the host's PATH whenever
\* the host has one, also over a configured PATH; every other configured
\* variable is there, with the host's value when it was configured empty and
\* the host has set it, and with its configured value otherwise; and nothing
\* else is there.
C22_EnvTranslationAmended ==
    Translated
    => \A s \in DOMAIN ts.config :
         LET env  == ts.params[1][s].env
             conf == ts.config[s].env
             inherited(k) == k = "PATH" /\ Has(ts.host, "PATH")
         IN  \A k \in EnvKeys :
               /\ inherited(k) => env[k] = ts.host[k]
               /\ (~inherited(k) /\ ~Has(conf, k)) => ~Has(env, k)
               /\ (~inherited(k) /\ Has(conf, k) /\ conf[k] = "" /\ Has(ts.host, k))
                  => env[k] = ts.host[k]
               /\ (~inherited(k) /\ Has(conf, k) /\ conf[k] = "" /\ ~Has(ts.host, k))
                  => env[k] = ""
               /\ (~inherited(k) /\ Has(conf, k) /\ conf[k] # "")
                  => env[k] = conf[k]

\* C22 witness: a server configured with its own PATH and an empty K, on a
\* host that has set both, has been translated: PATH is the host's and K is
\* the host's.
C22_Witness ==
    /\ Translated
    /\ ts.host = HostValue
    /\ \E s \in DOMAIN ts.config :
         /\ ts.config[s].env["PATH"] = "/opt/bin"
         /\ ts.config[s].env["K"] = ""
         /\ ts.params[1][s].env = HostValue

\* C23 (logger failure does not alter the invocation).  When the session
\* block gave a result that is not an error and log_request_response then
\* raised, call_server_tool has still returned a ToolResponse with success
\* true, the tool's result and a log_entry.
LoggerFailedOnSuccess ==
    /\ br.pc \in {"returned", "raised"}
    /\ br.raw.kind # "exc"
    /\ ~IsErrorFlag(br.raw)
    /\ LogRequestResponse(br.args_ok, ResponseData(br.raw), FALSE).raised

C23_LoggerFailureHarmless ==
    LoggerFailedOnSuccess
    => /\ br.pc = "returned"
       /\ br.response[1].success
       /\ br.response[1].result = Some(ResponseData(br.raw))
       /\ br.response[1].log_entry # None

\* C24 (every invocation is bounded by the timeout).  Once the timeout
\* period of an invocation has elapsed (its timer fired, or the period
\* passed for an invocation without a timer), the invocation is no longer
\* pending, waiting for admission, admitted or attempting: it has ended or
\* is being cancelled.
Elapsed(p) == p.cancel \/ p.late
InProgress(p) ==
    /\ p.pc \in {"created", "waiting", "granted", "attempting", "closing",
                 "backoff"}
    /\ ~p.cancel

C24_BoundedByTimeout ==
    \A i \in Invocations : Elapsed(inv[i]) => ~InProgress(inv[i])

\* C25 (state machine of an invocation).  The safety side of PENDING ->
\* ADMITTED -> ATTEMPTING -> {SUCCEEDED | FAILED | CANCELLED}: the
\* underlying call is attempted at most up to the retry cap; an invocation
\* whose guarded call has FAILED met a non-transient failure on its latest
\* attempt or had used up the cap (a transient failure below the cap leads
\* to another attempt, not to FAILED); and an invocation struck by the
\* timeout ends CANCELLED and in no other terminal state.
Failed(p) == p.result \in Surfaced /\ ~p.cancel

C25_StateMachine ==
    \A i \in Invocations :
        /\ Len(inv[i].retry.outs) <= inv[i].retry.max_retries
        /\ Failed(inv[i])
           => \/ inv[i].met \notin TransientErrors
              \/ inv[i].retry.retries >= inv[i].retry.max_retries
        /\ (inv[i].cancel /\ inv[i].result # "none") => inv[i].result = "timeout"

\* C26 (bounded in-memory lists).  After any sequence of log,
\* record_tool_call, record_error and clear operations each list is within
\* its limit and holds, in insertion order, the most recent of the entries
\* appended to it since it was last cleared: the oldest are the ones dropped.
MostRecent(n, base, limit) ==
    LET lo == IF n - limit > base THEN n - limit + 1 ELSE base + 1
    IN  [k \in 1..(n - lo + 1) |-> lo + k - 1]

C26_BoundedLists ==
    ts.pc = "debugger"
    => /\ Len(ts.logs) <= max_logs
       /\ Len(ts.tool_calls) <= max_tool_calls
       /\ Len(ts.errors) <= max_errors
       /\ ts.logs = MostRecent(ts.nlogs, ts.blogs, max_logs)
       /\ ts.tool_calls = MostRecent(ts.ntools, ts.btools, max_tool_calls)
       /\ ts.errors = MostRecent(ts.nerrors, ts.berrors, max_errors)

\* C26 witness: appends went past the limit of every list; each is full and
\* its oldest entries are gone.
C26_Witness ==
    /\ ts.pc = "debugger"
    /\ ts.nlogs > max_logs /\ Len(ts.logs) = max_logs /\ ts.logs[1] > 1
    /\ ts.ntools > max_tool_calls /\ Len(ts.tool_calls) = max_tool_calls
    /\ ts.tool_calls[1] > 1
    /\ ts.nerrors > max_errors /\ Len(ts.errors) = max_errors
    /\ ts.errors[1] > 1

\* C27 (connection state).  After any sequence of connect_to_server,
\* process_query and close: connected holds exactly when the latest of
\* connect_to_server and close was connect_to_server; process_query raised
\* exactly when connected was false, and then left the client as it was (it
\* never changes the flag, server_info or the registry); close on a client
\* that was not connected changed nothing.
C27_ConnectionState ==
    ts.pc = "client"
    => /\ ts.client.connected <=> ts.last = "connect"
       /\ ts.op = "query"
          => /\ ts.raised <=> ~ts.pre.connected
             /\ ts.raised => ts.client = ts.pre
             /\ ts.client.connected = ts.pre.connected
             /\ ts.client.server_info = ts.pre.server_info
             /\ ts.client.tools = ts.pre.tools
       /\ (ts.op = "close" /\ ~ts.pre.connected) => ts.client = ts.pre

\* C27 witness: a client that was connected and then closed has been asked
\* a query, which raised and changed nothing.
C27_Witness ==
    /\ ts.pc = "client"
    /\ ts.op = "query" /\ ts.raised
    /\ ts.last = "close"
    /\ ts.client.server_info # NoServerInfo
    /\ ts.client = ts.pre

\* C28 (backoff delays).  In call_with_retry_async the sleep before the k-th
\* evaluation of `await coro` (k >= 2) lasts retry_delay * 2^(k-2); there is
\* no sleep before the first, and none after the last failed one: when the
\* wrapper has ended it has slept once less than it has awaited.
C28_BackoffDelays ==
    rt.pc \in {"loop", "sleeping", "done"}
    => /\ \A k \in 2..(Len(rt.sleeps) + 1) :
            rt.sleeps[k - 1] = rt.retry_delay * 2 ^ (k - 2)
       /\ rt.awaits = 0 => rt.sleeps = << >>
       /\ rt.pc \in {"loop", "sleeping"} => Len(rt.sleeps) = rt.awaits
       /\ (rt.pc = "done" /\ rt.awaits > 0) => Len(rt.sleeps) = rt.awaits - 1

\* C28 witness: four attempts that all failed with a transient error, with
\* three sleeps of 2, 4 and 8 between them and none after the last.
C28_Witness ==
    /\ rt.pc = "done"
    /\ rt.retry_delay = 2
    /\ rt.awaits = 4
    /\ rt.raised \in TransientErrors
    /\ rt.sleeps = <<2, 4, 8>>

\* C29 (order of events within one invocation).  started counts the
\* evaluations of `await coro` the invocation has begun.  Admission comes
\* before the first attempt: an invocation not yet admitted has begun no
\* attempt and opened no session, and an open session belongs to a holder
\* of a slot.  Attempts follow one another: at most one attempt is begun
\* and unfinished, and none is while the wrapper sleeps.  Logging comes
\* before the return: when call_tool_async has received a ToolResponse from
\* call_server_tool, the request logger has recorded the call.
NotYetAdmitted == {"idle", "created", "waiting", "granted"}

C29_EventOrder ==
    \A i \in Invocations :
        /\ inv[i].pc \in NotYetAdmitted
           => inv[i].started = 0 /\ inv[i].session = "none"
        /\ inv[i].session = "open" => i \in Holders
        /\ inv[i].started - inv[i].retry.awaits \in {0, 1}
        /\ inv[i].pc \in {"backoff", "done"} => inv[i].started = inv[i].retry.awaits
        /\ (inv[i].callee = "bridge" /\ inv[i].response # "none")
           => inv[i].records >= 1

\* C29 witness: one invocation went through the bridge and received its
\* ToolResponse, logged, while another had been kept waiting and, now
\* granted the slot, has still begun nothing.
C29_Witness ==
    \E i, j \in Invocations :
        /\ inv[i].callee = "bridge" /\ inv[i].response = "success"
        /\ inv[i].records >= 1 /\ inv[i].started = 1
        /\ inv[j].pc = "granted" /\ inv[j].session = "none"

\* C30 (slot accounting).  In every state the free permits of the semaphore
\* plus the invocations that hold a slot (inside the guarded block, through
\* every attempt and backoff, or just handed the slot) make up the capacity;
\* before the semaphore exists nobody holds a slot; and once every
\* invocation has ended, by return, by an exception or by cancellation, all
\* permits are free.
Ended(p) == p.pc \in {"done", "cancelled"}

C30_SlotAccounting ==
    /\ http_semaphore.created
       => /\ http_semaphore.value \in 0..Capacity
          /\ http_semaphore.value + Cardinality(Holders) = Capacity
    /\ ~http_semaphore.created => Holders = {}
    /\ (http_semaphore.created /\ \A i \in Invocations : Ended(inv[i]))
       => http_semaphore.value = Capacity /\ waiters = << >>

\* C30 witness: every invocation has ended, one by an exception out of the
\* retry wrapper and one cancelled while it held the slot, and all permits
\* are free.
C30_Witness ==
    /\ \A i \in Invocations : Ended(inv[i])
    /\ http_semaphore.value = Capacity
    /\ \E i, j \in Invocations :
         /\ inv[i].retry.raised # "none" /\ inv[i].result = "error_exception"
         /\ inv[j].cancel /\ inv[j].struck \in {"attempting", "backoff"}

\* C31 (sessions are owned and torn down).  A session is open only while
\* the invocation that opened it is inside its bridge call (attempting,
\* closing its session block, or unwinding it after cancellation): an
\* invocation that has ended, by return, by exception or by cancellation,
\* has no open session, and neither has one that has not begun or that runs
\* no bridge call.
InsideBridgeCall(p) ==
    p.callee = "bridge" /\ p.pc \in {"attempting", "closing", "teardown"}

NoErrorFlagResult ==
    /\ br.pc \in {"returned", "raised"}
    /\ br.raw.kind # "exc"
    /\ ~IsErrorFlag(br.raw)
    /\ br.args_ok

C32_PayloadShapes ==
    NoErrorFlagResult
    => /\ br.pc = "returned"
       /\ br.response[1].success
       /\ br.response[1].result # None
       /\ LET data == br.response[1].result[1] IN
          CASE br.raw.content = "dict" -> ~data.wrapped /\ data.payload = "dict"
            [] br.raw.content = "absent" -> data.wrapped /\ data.payload = br.raw.kind
            [] OTHER -> data.wrapped /\ data.payload = br.raw.content

\* C33 (store lock).  At most one thread is inside set_tools, get_tools or
\* clear, and it owns the lock; what get_tools returns is the whole content
\* the store had at one moment of the call (the previous or a new value,
\* never a mixture); a thread parked at an await does not own the lock; and
\* whenever a thread waits for the lock, the lock is free or its owner is
\* inside a method body and can leave it.
InsideStore(t) == ts.th[t].pc \in {"in", "exit"}

C33_StoreLock ==
    /\ \A t, u \in Threads : InsideStore(t) /\ InsideStore(u) => t = u
    /\ \A t \in Threads : InsideStore(t) <=> ts.lock.owner = t
    /\ \A t \in Threads :
         (ts.th[t].req.op = "get" /\ ts.th[t].pc \in {"exit", "idle"})
         => \E d \in ts.th[t].hist : ts.th[t].ret = GetToolsOf(d, ts.th[t].req.s)
    /\ \A t \in Threads : ts.th[t].pc = "suspended" => ts.lock.owner # t
    /\ (\E t \in Threads : ts.th[t].pc = "waiting")
       => \/ ts.lock.owner = 0
          \/ InsideStore(ts.lock.owner)

\* a get_tools that had to wait while another thread wrote the entry, and
\* returned the new list whole
C33_Witness ==
    \E t \in Threads : \E s \in Servers :
        /\ ts.th[t].pc = "idle" /\ ts.th[t].req = [op |-> "get", s |-> s, tools |-> "none"]
        /\ Cardinality(ts.th[t].hist) >= 2
        /\ ts.th[t].ret[s] \in Lists
        /\ \E u \in Threads : u # t /\ ts.th[u].req.op = "set" /\ ts.th[u].req.s = s
                               /\ ts.th[u].req.tools = ts.th[t].ret[s]
                               /\ ts.th[u].pc = "suspended"

\* C34 (cache operations).  set_tools(s, tools) makes the entry of s exactly
\* tools and leaves every other entry as it was; a get_tools step changes
\* no entry and creates none; list_tools yields the empty list for a server
\* without entry, for "" and for None; after clear get_tools yields the
\* empty list for every server.
Configured(t) == [tools |-> t.tools, heap |-> t.heap, server_parameters |-> Servers]

C34_SetStep ==
    \A s \in Servers, l \in ToolLists :
        (ts'.expect[s].list = l /\ StoreSetOne(s, l))
        => /\ View(ts')[s] = [key |-> TRUE, list |-> l]
           /\ \A r \in Servers \ {s} : View(ts')[r] = View(ts)[r]

C34_IsGetStep ==
    \/ \E s \in Servers \cup {NoSuchServer} :
         /\ ts'.lsnap # None /\ ts'.expect = ts.expect
         /\ ts'.lsnap[1] = [obj |-> ts'.lsnap[1].obj, seen |-> GetList(ts, s),
                            touched |-> FALSE]
         /\ StoreGetOne(s)
    \/ (ts'.msnap # None /\ ts'.expect = ts.expect /\ ts'.lsnap = ts.lsnap
        /\ StoreGetAll)

C34_GetStep ==
    C34_IsGetStep
    => /\ View(ts') = View(ts)
       /\ \A name \in {"", PyNone, NoSuchServer} \cup {s \in Servers : ts.tools[s] = 0} :
            /\ ListToolsAsync(Configured(ts), name) = << >>
            /\ ListToolsAsync(Configured(ts'), name) = << >>

C34_ClearStep ==
    ((\A s \in Servers : ~ts'.expect[s].key) /\ StoreClear)
    => \A s \in Servers \cup {NoSuchServer} :
         /\ GetList(ts', s) = << >>
         /\ LET g == GetToolsOne(ts', s, FreshObj(ts')) IN g.store.heap[g.handle] = << >>

BridgeExecutionEnded(p) == p.callee = "bridge" /\ p.started >= 1 /\ Ended(p)

C35_EveryAttemptRecorded ==
    \A i \in Invocations : BridgeExecutionEnded(inv[i]) => inv[i].records >= 1

\* C36 (skip only what is missing).  Every raw entry that exposes a name, a
\* description (possibly the empty string) and a serialisable input schema
\* is among the tools list_server_tools returns.
C36_EmptyDescriptionKept ==
    (ds.pc = "returned" /\ ds.raw.kind = "response" /\ ds.raw.tools = "list")
    => \A k \in 1..Len(ds.raw.entries) :
         WellFormed(ds.raw.entries[k])
         => \E j \in 1..Len(ds.tools) : ds.tools[j].id = k

\* C37 (argument rewriting).  create_server_parameters keeps the number and
\* order of the arguments; for a Windows-native command every argument is
\* passed through unchanged, and for any other command every argument that
\* is not a drive-letter path is passed through unchanged.  (An argument
\* with a backslash is left aside here: it may pass for a foreign-OS path.)
IsDriveLetterPath(p) ==
    /\ Len(p) >= 3
    /\ p[1] \in {"C", "D"} /\ p[2] = Colon /\ p[3] \in {Slash, Backslash}

LooksForeign(p) == IsDriveLetterPath(p) \/ Contains(p, Backslash)

C37_OnlyDrivePathsRewritten ==
    (ts.pc = "args" /\ ts.params # None)
    => LET args == ts.config.args
           out == ts.params[1].args
       IN  /\ Len(out) = Len(args)
           /\ \A k \in 1..Len(args) :
                (IsWindowsNative(ts.config.command) \/ ~LooksForeign(args[k]))
                => out[k] = args[k]

\* C38 (label round trip).  The tool name call_tool_async takes out of the
\* label a tool was cached under is that tool's name, for every name and
\* description.
C38_LabelRoundTrip ==
    (ts.pc = "label" /\ ts.tool_name # None) => ts.tool_name[1] = ts.name

\* C39 (a rejected request touches nothing).  The step that rejects a
\* request (no selection, invalid selection, invalid JSON, unknown server)
\* ends the task with its failure text and leaves the semaphore (also when
\* it has not been created yet), its deque, both logger sinks and the tool
\* cache as they were; a rejected request never holds a slot, never has a
\* session, never began an attempt and has no request-logger record.
RejectedNow(i) == inv[i].req \notin Rejected /\ inv'[i].req \in Rejected

C39_RejectStep ==
    \A i \in Invocations :
        RejectedNow(i)
        => /\ inv'[i].pc = "done" /\ inv'[i].result = RejectText(inv'[i].req)
           /\ http_semaphore' = http_semaphore
           /\ waiters' = waiters
           /\ textSink' = textSink /\ jsonSink' = jsonSink
           /\ ts' = ts

C39_RejectedState ==
    \A i \in Invocations :
        inv[i].req \in Rejected
        => /\ i \notin Holders
           /\ inv[i].session = "none" /\ inv[i].callee = "none"
           /\ inv[i].started = 0 /\ inv[i].records = 0
           /\ inv[i].result = RejectText(inv[i].req)

C39_RejectionTouchesNothing == [][C39_RejectStep]_vars /\ []C39_RejectedState

\* two requests were rejected, one for its unknown server and one for its
\* arguments, and the semaphore has still not been created
C39_Witness ==
    \E i, j \in Invocations :
        /\ i # j
        /\ inv[i].req = "unknown_server" /\ inv[i].pc = "done"
        /\ inv[j].req = "bad_json" /\ inv[j].pc = "done"
        /\ ~http_semaphore.created

====
